---- MODULE Spec2Model ----
(***************************************************************************)
(* A model of the OpenRouter unified reviewer (openrouter-unified-review): *)
(* the redactor, the chunker, the diff position mapper, the response       *)
(* parser, the finding merger and the review orchestrator.                 *)
(*                                                                         *)
(* Text is a sequence of one-character strings, so that length, slicing,   *)
(* splitting and pattern matching are computed as the JavaScript computes  *)
(* them.  A JavaScript value is a record [t |-> type tag, v |-> payload].  *)
(***************************************************************************)
EXTENDS Integers, Sequences, FiniteSets, TLC

VARIABLES
    pc,             \* position of the harness or of the run
    args,           \* the input of the function under check, or of the run
    ret,            \* the value the function returned
    reviewBatches,        \* the batches the run reviews
    staticFindings, \* the findings of the static checks
    bi,             \* the batch the loop is at, from 1
    attempt,        \* the attempt callOpenRouter is at, from 1
    calls,          \* the requests sent to the model so far
    lastOutcome,    \* how the latest request to the model ended
    allFindings,    \* the findings accumulated from the replies
    summaries,      \* the batch summaries accumulated from the replies
    mergedFindings,         \* the merged findings of the report
    comments,       \* the issue comments posted on the pull request
    inlinePosts,    \* the inline comments posted on the pull request
    ii,             \* the merged finding the inline loop is at, from 1
    posted,         \* the count of inline comments posted
    refused,        \* the count of inline comments the source host refused
    artifacts,      \* the files the full repo run wrote
    exitCode,       \* -1 while the process runs, then its exit code
    hostFailed,     \* whether a request to the source host has failed
    pageNext,       \* the URL githubPaginate requests next, JNull for none
    pageOut,        \* the items githubPaginate has gathered
    pageRequests,   \* the URLs githubPaginate has requested
    pageServer      \* the responses of the source host, by URL

inputVars == <<reviewBatches, staticFindings>>
loopVars == <<bi, attempt, calls, lastOutcome, allFindings, summaries>>
reportVars == <<mergedFindings, comments, inlinePosts, ii, posted, refused, artifacts>>
endVars == <<exitCode, hostFailed>>
pageVars == <<pageNext, pageOut, pageRequests, pageServer>>
runVars == <<inputVars, loopVars, reportVars, endVars, pageVars>>

vars == <<pc, args, ret, runVars>>

NoOutcome == [kind |-> "none"]

\* the state of the run's variables before a run, and when no run is made
RunIdle ==
    /\ reviewBatches = <<>>
    /\ staticFindings = <<>>
    /\ bi = 1
    /\ attempt = 1
    /\ calls = <<>>
    /\ lastOutcome = NoOutcome
    /\ allFindings = <<>>
    /\ summaries = <<>>
    /\ mergedFindings = <<>>
    /\ comments = <<>>
    /\ inlinePosts = <<>>
    /\ ii = 1
    /\ posted = 0
    /\ refused = 0
    /\ artifacts = <<>>
    /\ exitCode = -1
    /\ hostFailed = FALSE
    /\ pageNext = [t |-> "null", v |-> <<>>]
    /\ pageOut = <<>>
    /\ pageRequests = <<>>
    /\ pageServer = <<>>

-----------------------------------------------------------------------------
(* JavaScript values *)

JUndef == [t |-> "undef", v |-> <<>>]
JNull == [t |-> "null", v |-> <<>>]
JStr(s) == [t |-> "str", v |-> s]
JNum(n) == [t |-> "num", v |-> n]
JBool(b) == [t |-> "bool", v |-> b]
JArr(a) == [t |-> "arr", v |-> a]
JObj(o) == [t |-> "obj", v |-> o]

\* ToBoolean: what `!x`, `x || y` and `if (x)` test
Truthy(x) ==
    CASE x.t = "undef" -> FALSE
      [] x.t = "null" -> FALSE
      [] x.t = "str" -> x.v # <<>>
      [] x.t = "num" -> x.v # 0
      [] x.t = "bool" -> x.v
      [] OTHER -> TRUE

-----------------------------------------------------------------------------
(* Text helpers *)

NL == "\n"

RECURSIVE Concat(_)
Concat(ss) == IF ss = <<>> THEN <<>> ELSE Head(ss) \o Concat(Tail(ss))

\* String.prototype.slice(0, n) for n >= 0
SliceTo(s, n) == SubSeq(s, 1, IF n < Len(s) THEN n ELSE Len(s))

\* the text s has the literal lit at index i (1-based)
LitAt(s, i, lit) ==
    /\ i >= 1
    /\ i + Len(lit) - 1 <= Len(s)
    /\ \A k \in 1..Len(lit) : s[i + k - 1] = lit[k]

WhiteSpace == {" ", NL, "\t", "\r"}

\* String.prototype.trim
RECURSIVE TrimLeft(_)
TrimLeft(s) == IF s # <<>> /\ Head(s) \in WhiteSpace THEN TrimLeft(Tail(s)) ELSE s

RECURSIVE TrimRight(_)
TrimRight(s) ==
    IF s # <<>> /\ s[Len(s)] \in WhiteSpace THEN TrimRight(SubSeq(s, 1, Len(s) - 1)) ELSE s

Trim(s) == TrimRight(TrimLeft(s))

-----------------------------------------------------------------------------
(* Chunker: PR batching and full-repo batching.  The cap (PR_MAX_BATCH_CHARS, *)
(* MAX_BATCH_CHARS) and the per-file cap (MAX_FILE_CHARS) are parameters.   *)

makeUnifiedChunk(filename, patch) ==
    <<"-", "-", "-", " ", "a", "/">> \o filename \o <<NL, "+", "+", "+", " ", "b", "/">>
        \o filename \o <<NL>> \o patch \o <<NL, NL>>

RECURSIVE batchPRFilesLoop(_, _, _, _, _)
batchPRFilesLoop(files, i, buf, batches, cap) ==
    IF i > Len(files)
    THEN IF buf # <<>> THEN Append(batches, buf) ELSE batches
    ELSE IF ~Truthy(files[i].patch)
         THEN batchPRFilesLoop(files, i + 1, buf, batches, cap)
         ELSE LET chunk == makeUnifiedChunk(files[i].filename, files[i].patch.v)
              IN  IF Len(buf) + Len(chunk) > cap
                  THEN batchPRFilesLoop(files, i + 1, chunk,
                           IF buf # <<>> THEN Append(batches, buf) ELSE batches, cap)
                  ELSE batchPRFilesLoop(files, i + 1, buf \o chunk, batches, cap)

\* mutant: the size test forgets what the buffer already holds
RECURSIVE batchPRFilesLoopNoBuf(_, _, _, _, _)
batchPRFilesLoopNoBuf(files, i, buf, batches, cap) ==
    IF i > Len(files)
    THEN IF buf # <<>> THEN Append(batches, buf) ELSE batches
    ELSE IF ~Truthy(files[i].patch)
         THEN batchPRFilesLoopNoBuf(files, i + 1, buf, batches, cap)
         ELSE LET chunk == makeUnifiedChunk(files[i].filename, files[i].patch.v)
              IN  IF Len(chunk) > cap
                  THEN batchPRFilesLoopNoBuf(files, i + 1, chunk,
                           IF buf # <<>> THEN Append(batches, buf) ELSE batches, cap)
                  ELSE batchPRFilesLoopNoBuf(files, i + 1, buf \o chunk, batches, cap)

batchPRFilesNoBuf(files, cap) == batchPRFilesLoopNoBuf(files, 1, <<>>, <<>>, cap)

\* mutant: the flush replaces the buffer without pushing it
RECURSIVE batchPRFilesLoopDrop(_, _, _, _, _)
batchPRFilesLoopDrop(files, i, buf, batches, cap) ==
    IF i > Len(files)
    THEN IF buf # <<>> THEN Append(batches, buf) ELSE batches
    ELSE IF ~Truthy(files[i].patch)
         THEN batchPRFilesLoopDrop(files, i + 1, buf, batches, cap)
         ELSE LET chunk == makeUnifiedChunk(files[i].filename, files[i].patch.v)
              IN  IF Len(buf) + Len(chunk) > cap
                  THEN batchPRFilesLoopDrop(files, i + 1, chunk, batches, cap)
                  ELSE batchPRFilesLoopDrop(files, i + 1, buf \o chunk, batches, cap)

batchPRFilesDrop(files, cap) == batchPRFilesLoopDrop(files, 1, <<>>, <<>>, cap)

\* mutant: a chunk larger than the cap is appended to the buffer
RECURSIVE batchPRFilesLoopAppendOversized(_, _, _, _, _)
batchPRFilesLoopAppendOversized(files, i, buf, batches, cap) ==
    IF i > Len(files)
    THEN IF buf # <<>> THEN Append(batches, buf) ELSE batches
    ELSE IF ~Truthy(files[i].patch)
         THEN batchPRFilesLoopAppendOversized(files, i + 1, buf, batches, cap)
         ELSE LET chunk == makeUnifiedChunk(files[i].filename, files[i].patch.v)
              IN  IF Len(buf) + Len(chunk) > cap /\ Len(chunk) <= cap
                  THEN batchPRFilesLoopAppendOversized(files, i + 1, chunk,
                           IF buf # <<>> THEN Append(batches, buf) ELSE batches, cap)
                  ELSE batchPRFilesLoopAppendOversized(files, i + 1, buf \o chunk, batches, cap)

batchPRFilesAppendOversized(files, cap) ==
    batchPRFilesLoopAppendOversized(files, 1, <<>>, <<>>, cap)

batchPRFiles(files, cap) == batchPRFilesLoop(files, 1, <<>>, <<>>, cap)

\* process.cwd(), and path.relative(process.cwd(), p) for a path below it
Cwd == <<"/", "w">>
PathRelative(p) == SubSeq(p, Len(Cwd) + 2, Len(p))

Truncated == <<NL, ".", ".", ".", " ", "[", "t", "r", "u", "n", "c", "a", "t", "e", "d", "]">>
FileBanner == <<NL, "/", "/", " ", "=", "=", "=", "=", "=", " ", "F", "I", "L", "E", ":", " ">>
FileBannerEnd == <<" ", "=", "=", "=", "=", "=", NL>>

\* a file of the walk is [path, src]: src is what readFileSync gives, JUndef when
\* it throws.  The result is JNull or the formatted text.
sliceFileContent(f, maxFile) ==
    IF f.src.t # "str" THEN JNull
    ELSE IF Trim(f.src.v) = <<>> THEN JNull
    ELSE LET src == IF Len(f.src.v) > maxFile
                    THEN SliceTo(f.src.v, maxFile) \o Truncated
                    ELSE f.src.v
         IN  JStr(FileBanner \o PathRelative(f.path) \o FileBannerEnd \o src)

RECURSIVE batchesFromFilesLoop(_, _, _, _, _, _)
batchesFromFilesLoop(files, i, buf, batches, cap, maxFile) ==
    IF i > Len(files)
    THEN IF buf # <<>> THEN Append(batches, buf) ELSE batches
    ELSE LET part == sliceFileContent(files[i], maxFile)
         IN  IF ~Truthy(part)
             THEN batchesFromFilesLoop(files, i + 1, buf, batches, cap, maxFile)
             ELSE IF Len(buf) + Len(part.v) > cap
                  THEN batchesFromFilesLoop(files, i + 1, part.v,
                           IF buf # <<>> THEN Append(batches, buf) ELSE batches, cap, maxFile)
                  ELSE batchesFromFilesLoop(files, i + 1, buf \o part.v, batches, cap, maxFile)

batchesFromFiles(files, cap, maxFile) == batchesFromFilesLoop(files, 1, <<>>, <<>>, cap, maxFile)

-----------------------------------------------------------------------------
(* Diff position mapper *)

Digits == {"0", "1", "2", "3", "4", "5", "6", "7", "8", "9"}

DigitVal(c) ==
    CASE c = "0" -> 0 [] c = "1" -> 1 [] c = "2" -> 2 [] c = "3" -> 3 [] c = "4" -> 4
      [] c = "5" -> 5 [] c = "6" -> 6 [] c = "7" -> 7 [] c = "8" -> 8 [] c = "9" -> 9

\* the length of the run of digits of s that starts at index i: what \d+ takes
RECURSIVE DigitRun(_, _)
DigitRun(s, i) == IF i >= 1 /\ i <= Len(s) /\ s[i] \in Digits THEN 1 + DigitRun(s, i + 1) ELSE 0

\* parseInt(ds, 10) of a non-empty string of digits
RECURSIVE ParseInt(_)
ParseInt(ds) == IF ds = <<>> THEN 0 ELSE 10 * ParseInt(SubSeq(ds, 1, Len(ds) - 1)) + DigitVal(ds[Len(ds)])

\* String.prototype.split("\n")
RECURSIVE SplitLines(_, _)
SplitLines(s, from) ==
    LET ends == {j \in from..Len(s) : s[j] = NL}
    IN  IF ends = {} THEN <<SubSeq(s, from, Len(s))>>
        ELSE LET j == CHOOSE x \in ends : \A y \in ends : x <= y
             IN  <<SubSeq(s, from, j - 1)>> \o SplitLines(s, j + 1)

Split(s) == SplitLines(s, 1)

StartsWith(L, c) == Len(L) >= 1 /\ L[1] = c

\* /^@@ -\d+(?:,\d+)? \+(\d+)(?:,(\d+))? @@/.exec(L): [ok, c] with c = m[1]
HunkHeader(L) ==
    LET n1 == DigitRun(L, 5)
        p2 == 5 + n1
        hasOldLen == p2 <= Len(L) /\ L[p2] = "," /\ DigitRun(L, p2 + 1) >= 1
        p3 == IF hasOldLen THEN p2 + 1 + DigitRun(L, p2 + 1) ELSE p2
        n3 == DigitRun(L, p3 + 2)
        p5 == p3 + 2 + n3
        hasNewLen == p5 <= Len(L) /\ L[p5] = "," /\ DigitRun(L, p5 + 1) >= 1
        p6 == IF hasNewLen THEN p5 + 1 + DigitRun(L, p5 + 1) ELSE p5
        ok == /\ LitAt(L, 1, <<"@", "@", " ", "-">>)
              /\ n1 >= 1
              /\ LitAt(L, p3, <<" ", "+">>)
              /\ n3 >= 1
              /\ LitAt(L, p6, <<" ", "@", "@">>)
    IN  [ok |-> ok, c |-> IF ok THEN SubSeq(L, p3 + 2, p5 - 1) ELSE <<>>]

\* Number(x): [nan, n].  Strings are trimmed; the empty string is 0, a string of
\* decimal digits is its value, any other string is NaN.
ToNumber(x) ==
    CASE x.t = "num" -> [nan |-> FALSE, n |-> x.v]
      [] x.t = "null" -> [nan |-> FALSE, n |-> 0]
      [] x.t = "bool" -> [nan |-> FALSE, n |-> IF x.v THEN 1 ELSE 0]
      [] x.t = "str" ->
            LET s == Trim(x.v)
            IN  IF s = <<>> THEN [nan |-> FALSE, n |-> 0]
                ELSE IF DigitRun(s, 1) = Len(s) THEN [nan |-> FALSE, n |-> ParseInt(s)]
                ELSE [nan |-> TRUE, n |-> 0]
      [] OTHER -> [nan |-> TRUE, n |-> 0]

\* newLine === Number(targetNewLine)
StrictEqNumber(n, x) == ~ToNumber(x).nan /\ ToNumber(x).n = n

RECURSIVE diffPositionLoop(_, _, _, _, _)
diffPositionLoop(lines, i, position, newLine, targetNewLine) ==
    IF i > Len(lines) THEN JNull
    ELSE LET L == lines[i]
             pos == position + 1
             m == HunkHeader(L)
         IN  IF m.ok
             THEN diffPositionLoop(lines, i + 1, pos, ParseInt(m.c), targetNewLine)
             ELSE IF StartsWith(L, "+")
             THEN IF StrictEqNumber(newLine, targetNewLine) THEN JNum(pos)
                  ELSE diffPositionLoop(lines, i + 1, pos, newLine + 1, targetNewLine)
             ELSE IF StartsWith(L, "-")
             THEN diffPositionLoop(lines, i + 1, pos, newLine, targetNewLine)
             ELSE IF StrictEqNumber(newLine, targetNewLine) THEN JNum(pos)
                  ELSE diffPositionLoop(lines, i + 1, pos, newLine + 1, targetNewLine)

\* mutant: removed lines are not counted in the position
RECURSIVE diffPositionLoopSkipRemoved(_, _, _, _, _)
diffPositionLoopSkipRemoved(lines, i, position, newLine, targetNewLine) ==
    IF i > Len(lines) THEN JNull
    ELSE LET L == lines[i]
             pos == position + 1
             m == HunkHeader(L)
         IN  IF m.ok
             THEN diffPositionLoopSkipRemoved(lines, i + 1, pos, ParseInt(m.c), targetNewLine)
             ELSE IF StartsWith(L, "-")
             THEN diffPositionLoopSkipRemoved(lines, i + 1, position, newLine, targetNewLine)
             ELSE IF StrictEqNumber(newLine, targetNewLine) THEN JNum(pos)
                  ELSE diffPositionLoopSkipRemoved(lines, i + 1, pos, newLine + 1, targetNewLine)

diffPositionForLineSkipRemoved(unifiedPatch, targetNewLine) ==
    diffPositionLoopSkipRemoved(Split(unifiedPatch), 1, 0, 0, targetNewLine)

diffPositionForLine(unifiedPatch, targetNewLine) ==
    diffPositionLoop(Split(unifiedPatch), 1, 0, 0, targetNewLine)

-----------------------------------------------------------------------------
(* Redactor: the seven SECRET_PATTERNS, each as the end of its match at an   *)
(* index of the text (0: no match there), and String.prototype.replace with  *)
(* a global pattern.                                                         *)

UpperSeq ==
    <<"A", "B", "C", "D", "E", "F", "G", "H", "I", "J", "K", "L", "M",
      "N", "O", "P", "Q", "R", "S", "T", "U", "V", "W", "X", "Y", "Z">>
LowerSeq ==
    <<"a", "b", "c", "d", "e", "f", "g", "h", "i", "j", "k", "l", "m",
      "n", "o", "p", "q", "r", "s", "t", "u", "v", "w", "x", "y", "z">>
Upper == {UpperSeq[k] : k \in 1..26}
Lower == {LowerSeq[k] : k \in 1..26}
Alnum == Upper \cup Lower \cup Digits

\* \w, and \s as far as the inputs have it
WordChars == Alnum \cup {"_"}
SpaceChars == {" ", NL, "\t", "\r"}

\* the character folded as the i flag folds it
ToLower(c) == IF c \in Upper THEN LowerSeq[CHOOSE k \in 1..26 : UpperSeq[k] = c] ELSE c

\* a literal under the i flag
LitAtI(s, i, lit) ==
    /\ i >= 1
    /\ i + Len(lit) - 1 <= Len(s)
    /\ \A k \in 1..Len(lit) : ToLower(s[i + k - 1]) = lit[k]

\* the length of the longest run of characters of class C from index i
RECURSIVE ClassRun(_, _, _)
ClassRun(s, i, C) == IF i >= 1 /\ i <= Len(s) /\ s[i] \in C THEN 1 + ClassRun(s, i + 1, C) ELSE 0

IsWordAt(s, i) == i >= 1 /\ i <= Len(s) /\ s[i] \in WordChars

\* \b between s[i-1] and s[i]
Boundary(s, i) == IsWordAt(s, i - 1) # IsWordAt(s, i)

\* mutant: a placeholder that names the rule
PlaceholderNamed ==
    <<"[", "R", "E", "D", "A", "C", "T", "E", "D", ":", "a", "w", "s", "-", "a", "c",
      "c", "e", "s", "s", "-", "k", "e", "y", "-", "i", "d", "]">>

Placeholder == <<"[", "R", "E", "D", "A", "C", "T", "E", "D", "]">>

PrivateKeyDashes ==
    <<"P", "R", "I", "V", "A", "T", "E", " ", "K", "E", "Y", "-", "-", "-", "-", "-">>
PemBegin == <<"-", "-", "-", "-", "-", "B", "E", "G", "I", "N", " ">>
PemEnd == <<"-", "-", "-", "-", "-", "E", "N", "D", " ">>

\* [A-Z ]*PRIVATE KEY----- from index i: the end of the marker, the star taking
\* the longest run that still leaves the literal to follow (0: none)
PemLabelEnd(s, i) ==
    LET ks == {k \in 0..ClassRun(s, i, Upper \cup {" "}) : LitAt(s, i + k, PrivateKeyDashes)}
    IN  IF ks = {} THEN 0
        ELSE (CHOOSE k \in ks : \A j \in ks : j <= k) + i + Len(PrivateKeyDashes)

\* /-----BEGIN [A-Z ]*PRIVATE KEY-----[\s\S]*?-----END [A-Z ]*PRIVATE KEY-----/g
MatchPem(s, i) ==
    IF ~LitAt(s, i, PemBegin) THEN 0
    ELSE LET b == PemLabelEnd(s, i + Len(PemBegin))
             js == IF b = 0 THEN {}
                   ELSE {j \in b..Len(s) :
                            LitAt(s, j, PemEnd) /\ PemLabelEnd(s, j + Len(PemEnd)) # 0}
         IN  IF js = {} THEN 0
             ELSE PemLabelEnd(s, (CHOOSE j \in js : \A h \in js : j <= h) + Len(PemEnd))

\* api[_\-\s]*key|secret|token|password|passwd|authorization under the i flag:
\* the end of the keyword that starts at i (0: none)
KeywordEnd(s, i) ==
    LET api == <<"a", "p", "i">>
        key == <<"k", "e", "y">>
        r == ClassRun(s, i + 3, {"_", "-"} \cup SpaceChars)
        words == { <<"s", "e", "c", "r", "e", "t">>, <<"t", "o", "k", "e", "n">>,
                   <<"p", "a", "s", "s", "w", "o", "r", "d">>, <<"p", "a", "s", "s", "w", "d">>,
                   <<"a", "u", "t", "h", "o", "r", "i", "z", "a", "t", "i", "o", "n">> }
    IN  IF LitAtI(s, i, api) /\ LitAtI(s, i + 3 + r, key) THEN i + 3 + r + 3
        ELSE IF \E w \in words : LitAtI(s, i, w)
             THEN i + Len(CHOOSE w \in words : LitAtI(s, i, w))
             ELSE 0

Quotes == {"\"", "'"}

\* \s*[:=]\s*["']?C{min,}["']? from index e: the end of the match (0: none)
AssignmentEnd(s, e, C, min) ==
    LET p1 == e + ClassRun(s, e, SpaceChars)
        p2 == p1 + 1 + ClassRun(s, p1 + 1, SpaceChars)
        p3 == IF p2 <= Len(s) /\ s[p2] \in Quotes THEN p2 + 1 ELSE p2
        r == ClassRun(s, p3, C)
        p4 == p3 + r
    IN  IF p1 <= Len(s) /\ s[p1] \in {":", "="} /\ r >= min
        THEN IF p4 <= Len(s) /\ s[p4] \in Quotes THEN p4 + 1 ELSE p4
        ELSE 0

\* /(?:api[_\-\s]*key|secret|token|password|passwd|authorization)\s*[:=]\s*["']?[A-Za-z0-9_-]{12,}["']?/gi
MatchAssignment(s, i) ==
    LET e == KeywordEnd(s, i)
    IN  IF e = 0 THEN 0 ELSE AssignmentEnd(s, e, Alnum \cup {"_", "-"}, 12)

\* \b prefix C{min,} \b from index i: the quantifier gives characters back until
\* a word boundary follows (0: none)
TokenEnd(s, i, prefix, C, min) ==
    IF ~(Boundary(s, i) /\ LitAt(s, i, prefix)) THEN 0
    ELSE LET p == i + Len(prefix)
             ms == {m \in min..ClassRun(s, p, C) : Boundary(s, p + m)}
         IN  IF ms = {} THEN 0 ELSE p + (CHOOSE m \in ms : \A k \in ms : k <= m)

\* /\b(AIza|ya29\.)[A-Za-z0-9_-]{20,}\b/g
MatchGoogle(s, i) ==
    LET a == TokenEnd(s, i, <<"A", "I", "z", "a">>, Alnum \cup {"_", "-"}, 20)
    IN  IF a # 0 THEN a
        ELSE TokenEnd(s, i, <<"y", "a", "2", "9", ".">>, Alnum \cup {"_", "-"}, 20)

\* /\bghp_[A-Za-z0-9]{20,}\b/g
MatchGitHub(s, i) == TokenEnd(s, i, <<"g", "h", "p", "_">>, Alnum, 20)

\* mutant: the pattern without its trailing \b
MatchAwsKeyNoTrailingBoundary(s, i) ==
    IF Boundary(s, i) /\ LitAt(s, i, <<"A", "K", "I", "A">>)
          /\ ClassRun(s, i + 4, Digits \cup Upper) >= 16
    THEN i + 20
    ELSE 0

\* /\bAKIA[0-9A-Z]{16}\b/g
MatchAwsKey(s, i) ==
    IF Boundary(s, i) /\ LitAt(s, i, <<"A", "K", "I", "A">>)
          /\ ClassRun(s, i + 4, Digits \cup Upper) >= 16 /\ Boundary(s, i + 20)
    THEN i + 20
    ELSE 0

AwsSecretName ==
    <<"a", "w", "s", "_", "s", "e", "c", "r", "e", "t", "_",
      "a", "c", "c", "e", "s", "s", "_", "k", "e", "y">>

\* /\baws_secret_access_key\b\s*[:=]\s*["']?[A-Za-z0-9/+]{30,}["']?/gi
MatchAwsSecret(s, i) ==
    IF Boundary(s, i) /\ LitAtI(s, i, AwsSecretName) /\ Boundary(s, i + Len(AwsSecretName))
    THEN AssignmentEnd(s, i + Len(AwsSecretName), Alnum \cup {"/", "+"}, 30)
    ELSE 0

\* /\bsk-[A-Za-z0-9]{20,}\b/g
MatchSk(s, i) == TokenEnd(s, i, <<"s", "k", "-">>, Alnum, 20)

\* SECRET_PATTERNS[k - 1] at index i of s
MatchPattern(k, s, i) ==
    CASE k = 1 -> MatchPem(s, i)
      [] k = 2 -> MatchAssignment(s, i)
      [] k = 3 -> MatchGoogle(s, i)
      [] k = 4 -> MatchGitHub(s, i)
      [] k = 5 -> MatchAwsKey(s, i)
      [] k = 6 -> MatchAwsSecret(s, i)
      [] k = 7 -> MatchSk(s, i)

\* t.replace(re, "[REDACTED]") for the global pattern k, scanning from index i
RECURSIVE ReplaceFrom(_, _, _)
ReplaceFrom(k, s, i) ==
    LET starts == {j \in i..Len(s) : MatchPattern(k, s, j) # 0}
    IN  IF starts = {} THEN SubSeq(s, i, Len(s))
        ELSE LET j == CHOOSE x \in starts : \A y \in starts : x <= y
             IN  SubSeq(s, i, j - 1) \o Placeholder \o ReplaceFrom(k, s, MatchPattern(k, s, j))

\* SECRET_PATTERNS.reduce((t, re) => t.replace(re, "[REDACTED]"), s)
RECURSIVE RedactFrom(_, _)
RedactFrom(k, t) == IF k > 7 THEN t ELSE RedactFrom(k + 1, ReplaceFrom(k, t, 1))

redact(s) == RedactFrom(1, s)

-----------------------------------------------------------------------------
(* Response parser: JSON.parse as a recursive descent over the text, and     *)
(* extractJsonFromText.  JSON.parse gives [ok, v]: ok = FALSE is a thrown    *)
(* SyntaxError.  Numbers are integers and string escapes are \" \\ \/ \n,    *)
(* which is what the replies of the checks contain.                          *)

CharAt(s, i) == IF i >= 1 /\ i <= Len(s) THEN s[i] ELSE ""

JsonWs == {" ", NL, "\t", "\r"}

SkipWs(s, i) == i + ClassRun(s, i, JsonWs)

ParseFail == [ok |-> FALSE, v |-> JUndef, p |-> 0]

RECURSIVE ParseString(_, _, _)
ParseString(s, i, acc) ==
    IF i > Len(s) THEN ParseFail
    ELSE IF s[i] = "\"" THEN [ok |-> TRUE, v |-> JStr(acc), p |-> i + 1]
    ELSE IF s[i] = "\\"
         THEN IF CharAt(s, i + 1) \in {"\"", "\\", "/"}
              THEN ParseString(s, i + 2, Append(acc, s[i + 1]))
              ELSE IF CharAt(s, i + 1) = "n" THEN ParseString(s, i + 2, Append(acc, NL))
              ELSE ParseFail
    ELSE IF s[i] \in {NL, "\t", "\r"} THEN ParseFail
    ELSE ParseString(s, i + 1, Append(acc, s[i]))

ParseNumber(s, i) ==
    LET neg == CharAt(s, i) = "-"
        d == IF neg THEN i + 1 ELSE i
        r == DigitRun(s, d)
        val == ParseInt(SubSeq(s, d, d + r - 1))
    IN  IF r = 0 \/ (r > 1 /\ s[d] = "0") \/ CharAt(s, d + r) \in {".", "e", "E"}
        THEN ParseFail
        ELSE [ok |-> TRUE, v |-> JNum(IF neg THEN 0 - val ELSE val), p |-> d + r]

RECURSIVE ParseValue(_, _)
RECURSIVE ParseElements(_, _, _)
RECURSIVE ParseMembers(_, _, _)

\* the value that starts at index i (white space already skipped)
ParseValue(s, i) ==
    LET c == CharAt(s, i)
    IN  CASE c = "{" ->
                IF CharAt(s, SkipWs(s, i + 1)) = "}"
                THEN [ok |-> TRUE, v |-> JObj(<<>>), p |-> SkipWs(s, i + 1) + 1]
                ELSE ParseMembers(s, SkipWs(s, i + 1), <<>>)
          [] c = "[" ->
                IF CharAt(s, SkipWs(s, i + 1)) = "]"
                THEN [ok |-> TRUE, v |-> JArr(<<>>), p |-> SkipWs(s, i + 1) + 1]
                ELSE ParseElements(s, SkipWs(s, i + 1), <<>>)
          [] c = "\"" -> ParseString(s, i + 1, <<>>)
          [] c = "t" /\ LitAt(s, i, <<"t", "r", "u", "e">>) ->
                [ok |-> TRUE, v |-> JBool(TRUE), p |-> i + 4]
          [] c = "f" /\ LitAt(s, i, <<"f", "a", "l", "s", "e">>) ->
                [ok |-> TRUE, v |-> JBool(FALSE), p |-> i + 5]
          [] c = "n" /\ LitAt(s, i, <<"n", "u", "l", "l">>) ->
                [ok |-> TRUE, v |-> JNull, p |-> i + 4]
          [] c \in Digits \cup {"-"} -> ParseNumber(s, i)
          [] OTHER -> ParseFail

ParseElements(s, i, acc) ==
    LET e == ParseValue(s, i)
        n == SkipWs(s, e.p)
    IN  IF ~e.ok THEN ParseFail
        ELSE IF CharAt(s, n) = "," THEN ParseElements(s, SkipWs(s, n + 1), Append(acc, e.v))
        ELSE IF CharAt(s, n) = "]" THEN [ok |-> TRUE, v |-> JArr(Append(acc, e.v)), p |-> n + 1]
        ELSE ParseFail

ParseMembers(s, i, acc) ==
    IF CharAt(s, i) # "\"" THEN ParseFail
    ELSE LET k == ParseString(s, i + 1, <<>>)
             c == SkipWs(s, k.p)
             e == ParseValue(s, SkipWs(s, c + 1))
             n == SkipWs(s, e.p)
             acc2 == (k.v.v :> e.v) @@ acc
         IN  IF ~k.ok \/ CharAt(s, c) # ":" THEN ParseFail
             ELSE IF ~e.ok THEN ParseFail
             ELSE IF CharAt(s, n) = "," THEN ParseMembers(s, SkipWs(s, n + 1), acc2)
             ELSE IF CharAt(s, n) = "}" THEN [ok |-> TRUE, v |-> JObj(acc2), p |-> n + 1]
             ELSE ParseFail

\* JSON.parse of a text
JsonParse(s) ==
    LET r == ParseValue(s, SkipWs(s, 1))
    IN  IF r.ok /\ SkipWs(s, r.p) = Len(s) + 1 THEN [ok |-> TRUE, v |-> r.v]
        ELSE [ok |-> FALSE, v |-> JUndef]

\* the decimal digits of a natural number
RECURSIVE NatToString(_)
NatToString(n) ==
    IF n < 10 THEN <<CHOOSE c \in Digits : DigitVal(c) = n>>
    ELSE NatToString(n \div 10) \o <<CHOOSE c \in Digits : DigitVal(c) = n % 10>>

\* String(x), what a template literal and an implicit conversion give
RECURSIVE ToStringJS(_)
ToStringJS(x) ==
    CASE x.t = "str" -> x.v
      [] x.t = "num" -> IF x.v < 0 THEN <<"-">> \o NatToString(0 - x.v) ELSE NatToString(x.v)
      [] x.t = "bool" -> IF x.v THEN <<"t", "r", "u", "e">> ELSE <<"f", "a", "l", "s", "e">>
      [] x.t = "null" -> <<"n", "u", "l", "l">>
      [] x.t = "undef" -> <<"u", "n", "d", "e", "f", "i", "n", "e", "d">>
      [] x.t = "obj" ->
            <<"[", "o", "b", "j", "e", "c", "t", " ", "O", "b", "j", "e", "c", "t", "]">>
      [] x.t = "arr" ->
            IF x.v = <<>> THEN <<>>
            ELSE LET one(y) == IF y.t \in {"null", "undef"} THEN <<>> ELSE ToStringJS(y)
                 IN  IF Len(x.v) = 1 THEN one(x.v[1])
                     ELSE one(x.v[1]) \o <<",">> \o ToStringJS(JArr(Tail(x.v)))

\* the grave accent, which a TLA+ string cannot hold, by name
BackTick == "GRAVE"

Fence == <<BackTick, BackTick, BackTick>>

\* where the capture of /```(?:json)?\s*([\s\S]*?)```/i starts for a fence at i
FenceCaptureStart(s, i) ==
    LET a == IF LitAtI(s, i + 3, <<"j", "s", "o", "n">>) THEN i + 7 ELSE i + 3
    IN  a + ClassRun(s, a, SpaceChars)

\* /```(?:json)?\s*([\s\S]*?)```/i.exec(s): [ok, inner] with inner = fence[1]
FenceExec(s) ==
    LET closes(i) == {j \in FenceCaptureStart(s, i)..Len(s) : LitAt(s, j, Fence)}
        opens == {i \in 1..Len(s) : LitAt(s, i, Fence) /\ closes(i) # {}}
    IN  IF opens = {} THEN [ok |-> FALSE, inner |-> <<>>]
        ELSE LET i == CHOOSE x \in opens : \A y \in opens : x <= y
                 j == CHOOSE x \in closes(i) : \A y \in closes(i) : x <= y
             IN  [ok |-> TRUE, inner |-> SubSeq(s, FenceCaptureStart(s, i), j - 1)]

\* s.indexOf(c) and s.lastIndexOf(c), 1-based, 0 for -1
IndexOf(s, c) ==
    LET is == {i \in 1..Len(s) : s[i] = c}
    IN  IF is = {} THEN 0 ELSE CHOOSE i \in is : \A j \in is : i <= j
LastIndexOf(s, c) ==
    LET is == {i \in 1..Len(s) : s[i] = c}
    IN  IF is = {} THEN 0 ELSE CHOOSE i \in is : \A j \in is : j <= i

Returns(x) == [throws |-> FALSE, v |-> x]
Throws == [throws |-> TRUE, v |-> JUndef]

\* the steps after the direct parse, on a text: the fence, then first { to last }
extractAfterDirect(s) ==
    LET fence == FenceExec(s)
        first == IndexOf(s, "{")
        last == LastIndexOf(s, "}")
    IN  IF fence.ok /\ JsonParse(Trim(fence.inner)).ok
        THEN Returns(JsonParse(Trim(fence.inner)).v)
        ELSE IF first # 0 /\ last # 0 /\ last > first /\ JsonParse(SubSeq(s, first, last)).ok
        THEN Returns(JsonParse(SubSeq(s, first, last)).v)
        ELSE Returns(JNull)

\* mutant: a failed fence parse ends the search
extractAfterDirectStopAtFence(s) ==
    LET fence == FenceExec(s)
        first == IndexOf(s, "{")
        last == LastIndexOf(s, "}")
    IN  IF fence.ok
        THEN IF JsonParse(Trim(fence.inner)).ok THEN Returns(JsonParse(Trim(fence.inner)).v)
             ELSE Returns(JNull)
        ELSE IF first # 0 /\ last # 0 /\ last > first /\ JsonParse(SubSeq(s, first, last)).ok
        THEN Returns(JsonParse(SubSeq(s, first, last)).v)
        ELSE Returns(JNull)

\* extractJsonFromText of the unified reviewer with redaction
extractJsonFromText(s) ==
    IF ~Truthy(s) \/ s.t # "str" THEN Returns(JNull)
    ELSE IF JsonParse(s.v).ok THEN Returns(JsonParse(s.v).v)
    ELSE extractAfterDirect(s.v)

\* extractJsonFromText of the earlier unified reviewer: no guard on the input, so
\* JSON.parse and exec see String(s), and s.indexOf exists on strings and arrays only
extractJsonFromTextUnguarded(s) ==
    IF JsonParse(ToStringJS(s)).ok THEN Returns(JsonParse(ToStringJS(s)).v)
    ELSE IF s.t = "str" THEN extractAfterDirect(s.v)
    ELSE IF FenceExec(ToStringJS(s)).ok /\ JsonParse(Trim(FenceExec(ToStringJS(s)).inner)).ok
    THEN Returns(JsonParse(Trim(FenceExec(ToStringJS(s)).inner)).v)
    ELSE IF s.t = "arr"
    THEN LET first == IndexOf(s.v, JStr(<<"{">>))
             last == LastIndexOf(s.v, JStr(<<"}">>))
         IN  IF first # 0 /\ last # 0 /\ last > first /\ JsonParse(ToStringJS(JArr(SubSeq(s.v, first, last)))).ok
             THEN Returns(JsonParse(ToStringJS(JArr(SubSeq(s.v, first, last)))).v)
             ELSE Returns(JNull)
    ELSE Throws

-----------------------------------------------------------------------------
(* Finding merger: mergeFindings.  A finding is a JS value, as parsed from a *)
(* reply or built by the static scan.                                         *)

\* f.name for a value f that is neither null nor undefined
Prop(f, name) == IF f.t = "obj" /\ name \in DOMAIN f.v THEN f.v[name] ELSE JUndef

KeyFile == <<"f", "i", "l", "e">>
KeyLine == <<"l", "i", "n", "e">>
KeySeverity == <<"s", "e", "v", "e", "r", "i", "t", "y">>
KeyComment == <<"c", "o", "m", "m", "e", "n", "t">>
KeySuggestion == <<"s", "u", "g", "g", "e", "s", "t", "i", "o", "n">>

\* the length of the comment prefix that enters the key, and the one of the
\* mergeFindings of tools/openrouter-unified-review.mjs
CommentKeyChars == 100
CommentKeyCharsBatched == 80

\* `${f.file}|${f.line}|${f.severity}|${(f.comment || "").slice(0,100)}`:
\* reading a property of null or undefined raises, and so does .slice on a
\* truthy comment that is a number, a boolean or a plain object
FindingKeyChars(f, n) ==
    IF f.t \in {"null", "undef"} THEN Throws
    ELSE LET c == IF Truthy(Prop(f, KeyComment)) THEN Prop(f, KeyComment) ELSE JStr(<<>>)
             head == ToStringJS(Prop(f, KeyFile)) \o <<"|">> \o ToStringJS(Prop(f, KeyLine))
                        \o <<"|">> \o ToStringJS(Prop(f, KeySeverity)) \o <<"|">>
         IN  CASE c.t = "str" -> Returns(head \o SliceTo(c.v, n))
               [] c.t = "arr" -> Returns(head \o ToStringJS(JArr(SliceTo(c.v, n))))
               [] OTHER -> Throws

FindingKey(f) == FindingKeyChars(f, CommentKeyChars)

RECURSIVE mergeFindingsLoop(_, _, _, _, _)
mergeFindingsLoop(all, i, seen, merged, n) ==
    IF i > Len(all) THEN Returns(merged)
    ELSE LET key == FindingKeyChars(all[i], n)
         IN  IF key.throws THEN Throws
             ELSE IF key.v \in seen THEN mergeFindingsLoop(all, i + 1, seen, merged, n)
             ELSE mergeFindingsLoop(all, i + 1, seen \cup {key.v}, Append(merged, all[i]), n)

\* a variant in which a later duplicate replaces the retained finding
RECURSIVE mergeFindingsLoopLastWins(_, _, _, _)
mergeFindingsLoopLastWins(all, i, seen, merged) ==
    IF i > Len(all) THEN Returns(merged)
    ELSE LET key == FindingKey(all[i])
         IN  IF key.throws THEN Throws
             ELSE IF key.v \in seen
             THEN mergeFindingsLoopLastWins(all, i + 1, seen,
                      [k \in 1..Len(merged) |->
                          IF FindingKey(merged[k]).v = key.v THEN all[i] ELSE merged[k]])
             ELSE mergeFindingsLoopLastWins(all, i + 1, seen \cup {key.v}, Append(merged, all[i]))

mergeFindingsLastWins(all) == mergeFindingsLoopLastWins(all, 1, {}, <<>>)

mergeFindings(all) == mergeFindingsLoop(all, 1, {}, <<>>, CommentKeyChars)

\* mergeFindings of tools/openrouter-unified-review.mjs
mergeFindingsBatched(all) == mergeFindingsLoop(all, 1, {}, <<>>, CommentKeyCharsBatched)

-----------------------------------------------------------------------------
(* Static checks: STATIC_RULES and runStaticChecksOnPatch *)

\* the text s has the literal lit somewhere: s.includes(lit), /lit/.test(s)
Includes(s, lit) == \E i \in 1..(Len(s) + 1) : LitAt(s, i, lit)

\* /=\s*\{?\s*\(\s*\)\s*=>/ matches at index i
InlineHandlerAt(s, i) ==
    LET a == i + 1 + ClassRun(s, i + 1, SpaceChars)
        b == IF LitAt(s, a, <<"{">>) THEN a + 1 ELSE a
        c == b + ClassRun(s, b, SpaceChars)
        d == c + 1 + ClassRun(s, c + 1, SpaceChars)
        e == d + 1 + ClassRun(s, d + 1, SpaceChars)
    IN  /\ LitAt(s, i, <<"=">>)
        /\ LitAt(s, c, <<"(">>)
        /\ LitAt(s, d, <<")">>)
        /\ LitAt(s, e, <<"=", ">">>)

\* /\beval\s*\(/ matches at index i
EvalAt(s, i) ==
    /\ Boundary(s, i)
    /\ LitAt(s, i, <<"e", "v", "a", "l">>)
    /\ LitAt(s, i + 4 + ClassRun(s, i + 4, SpaceChars), <<"(">>)

\* /\b(md5|sha1)\b/i matches at index i
WeakCryptoAt(s, i) ==
    /\ Boundary(s, i)
    /\ \/ LitAtI(s, i, <<"m", "d", "5">>) /\ Boundary(s, i + 3)
       \/ LitAtI(s, i, <<"s", "h", "a", "1">>) /\ Boundary(s, i + 4)

SyncIoNames ==
    { <<"r", "e", "a", "d", "F", "i", "l", "e", "S", "y", "n", "c">>,
      <<"w", "r", "i", "t", "e", "F", "i", "l", "e", "S", "y", "n", "c">>,
      <<"r", "e", "a", "d", "d", "i", "r", "S", "y", "n", "c">>,
      <<"s", "t", "a", "t", "S", "y", "n", "c">> }

\* /\bfs\.(readFileSync|writeFileSync|readdirSync|statSync)\b/ matches at index i
SyncIoAt(s, i) ==
    /\ Boundary(s, i)
    /\ LitAt(s, i, <<"f", "s", ".">>)
    /\ \E n \in SyncIoNames : LitAt(s, i + 3, n) /\ Boundary(s, i + 3 + Len(n))

STATIC_RULES ==
    <<
       [id |-> <<"r", "e", "a", "c", "t", "-", "i", "n", "l", "i", "n", "e", "-", "h", "a", "n", "d", "l", "e", "r">>,
        severity |-> <<"l", "o", "w">>,
        msg |->
          <<"I", "n", "l", "i", "n", "e", " ", "a", "r", "r", "o", "w", " ", "f", "u",
            "n", "c", "t", "i", "o", "n", " ", "i", "n", " ", "J", "S", "X", " ", "m",
            "a", "y", " ", "c", "a", "u", "s", "e", " ", "r", "e", "r", "e", "n", "d",
            "e", "r", "s", " ", "(", "e", "x", "t", "r", "a", "c", "t", " ", "h", "a",
            "n", "d", "l", "e", "r", ")">>],
       [id |-> <<"d", "a", "n", "g", "e", "r", "o", "u", "s", "l", "y", "S", "e", "t", "I", "n", "n", "e", "r", "H", "T", "M", "L">>,
        severity |-> <<"h", "i", "g", "h">>,
        msg |->
          <<"d", "a", "n", "g", "e", "r", "o", "u", "s", "l", "y", "S", "e", "t", "I",
            "n", "n", "e", "r", "H", "T", "M", "L", " ", "c", "a", "n", " ", "i", "n",
            "t", "r", "o", "d", "u", "c", "e", " ", "X", "S", "S", ";", " ", "s", "a",
            "n", "i", "t", "i", "z", "e", "/", "e", "s", "c", "a", "p", "e", " ", "c",
            "o", "n", "t", "e", "n", "t">>],
       [id |-> <<"n", "o", "-", "e", "v", "a", "l">>,
        severity |-> <<"h", "i", "g", "h">>,
        msg |->
          <<"A", "v", "o", "i", "d", " ", "e", "v", "a", "l", "(", ")">>],
       [id |-> <<"w", "e", "a", "k", "-", "c", "r", "y", "p", "t", "o">>,
        severity |-> <<"m", "e", "d", "i", "u", "m">>,
        msg |->
          <<"W", "e", "a", "k", " ", "c", "r", "y", "p", "t", "o", "g", "r", "a", "p",
            "h", "y", " ", "d", "e", "t", "e", "c", "t", "e", "d">>],
       [id |-> <<"s", "y", "n", "c", "-", "i", "o">>,
        severity |-> <<"m", "e", "d", "i", "u", "m">>,
        msg |->
          <<"S", "y", "n", "c", " ", "I", "/", "O", " ", "i", "n", " ", "J", "S", " ",
            "(", "p", "r", "e", "f", "e", "r", " ", "a", "s", "y", "n", "c", ")">>] >>

\* STATIC_RULES[k].re.test(code)
RuleTest(k, code) ==
    \E i \in 1..(Len(code) + 1) :
        CASE k = 1 -> InlineHandlerAt(code, i)
          [] k = 2 -> LitAt(code, i, STATIC_RULES[2].id)
          [] k = 3 -> EvalAt(code, i)
          [] k = 4 -> WeakCryptoAt(code, i)
          [] k = 5 -> SyncIoAt(code, i)

\* /^@@ -\d+(?:,\d+)? \+(\d+)/.exec(L): [ok, c] with c = h[1]
ScanHeader(L) ==
    LET n1 == DigitRun(L, 5)
        p2 == 5 + n1
        hasOldLen == p2 <= Len(L) /\ L[p2] = "," /\ DigitRun(L, p2 + 1) >= 1
        p3 == IF hasOldLen THEN p2 + 1 + DigitRun(L, p2 + 1) ELSE p2
        n3 == DigitRun(L, p3 + 2)
        ok == /\ LitAt(L, 1, <<"@", "@", " ", "-">>)
              /\ n1 >= 1
              /\ LitAt(L, p3, <<" ", "+">>)
              /\ n3 >= 1
    IN  [ok |-> ok, c |-> IF ok THEN SubSeq(L, p3 + 2, p3 + 1 + n3) ELSE <<>>]

\* the finding pushed for rule k on an added line
RuleFinding(k, filename, newLine) ==
    [t |-> "obj",
     v |-> (<<"f", "i", "l", "e">> :> [t |-> "str", v |-> filename])
            @@ (<<"l", "i", "n", "e">> :> [t |-> "num", v |-> newLine])
            @@ (<<"s", "e", "v", "e", "r", "i", "t", "y">> :>
                    [t |-> "str", v |-> STATIC_RULES[k].severity])
            @@ (<<"c", "o", "m", "m", "e", "n", "t">> :>
                    [t |-> "str",
                     v |-> STATIC_RULES[k].msg \o <<" ", "(", "r", "u", "l", "e", ":", " ">>
                              \o STATIC_RULES[k].id \o <<")">>])]

\* the findings of the rules from k on for one added line's code
RECURSIVE RuleFindings(_, _, _, _)
RuleFindings(k, code, filename, newLine) ==
    IF k > Len(STATIC_RULES) THEN <<>>
    ELSE (IF RuleTest(k, code) THEN <<RuleFinding(k, filename, newLine)>> ELSE <<>>)
            \o RuleFindings(k + 1, code, filename, newLine)

\* mutant: removed lines advance the line number too
RECURSIVE runStaticChecksLoopCountRemoved(_, _, _, _, _)
runStaticChecksLoopCountRemoved(filename, lines, i, newLine, findings) ==
    IF i > Len(lines) THEN findings
    ELSE LET L == lines[i]
             h == ScanHeader(L)
         IN  IF h.ok
             THEN runStaticChecksLoopCountRemoved(filename, lines, i + 1, ParseInt(h.c), findings)
             ELSE IF StartsWith(L, "+")
             THEN runStaticChecksLoopCountRemoved(filename, lines, i + 1, newLine + 1,
                      findings \o RuleFindings(1, Tail(L), filename, newLine))
             ELSE runStaticChecksLoopCountRemoved(filename, lines, i + 1, newLine + 1, findings)

runStaticChecksOnPatchCountRemoved(filename, patch) ==
    runStaticChecksLoopCountRemoved(filename, Split(patch), 1, 0, <<>>)

RECURSIVE runStaticChecksLoop(_, _, _, _, _)
runStaticChecksLoop(filename, lines, i, newLine, findings) ==
    IF i > Len(lines) THEN findings
    ELSE LET L == lines[i]
             h == ScanHeader(L)
         IN  IF h.ok
             THEN runStaticChecksLoop(filename, lines, i + 1, ParseInt(h.c), findings)
             ELSE IF StartsWith(L, "+")
             THEN runStaticChecksLoop(filename, lines, i + 1, newLine + 1,
                      findings \o RuleFindings(1, Tail(L), filename, newLine))
             ELSE IF ~StartsWith(L, "-")
             THEN runStaticChecksLoop(filename, lines, i + 1, newLine + 1, findings)
             ELSE runStaticChecksLoop(filename, lines, i + 1, newLine, findings)

runStaticChecksOnPatch(filename, patch) ==
    runStaticChecksLoop(filename, Split(patch), 1, 0, <<>>)

-----------------------------------------------------------------------------
(* Report rendering and the texts of a review run.  renderMarkdown is kept as *)
(* the cells it writes: the title, the summary, one row per finding and one   *)
(* item per suggestion, each cell the text the template gives it.             *)

ToUpper(c) == IF c \in Lower THEN UpperSeq[CHOOSE k \in 1..26 : LowerSeq[k] = c] ELSE c

\* String.prototype.toUpperCase
ToUpperCase(s) == [k \in 1..Len(s) |-> ToUpper(s[k])]

\* s.replace(/\n/g, " ")
ReplaceNewlines(s) == [k \in 1..Len(s) |-> IF s[k] = NL THEN " " ELSE s[k]]

\* x || d and x ?? d
OrElse(x, d) == IF Truthy(x) THEN x ELSE d
Coalesce(x, d) == IF x.t \in {"null", "undef"} THEN d ELSE x

\* Array.prototype.join(sep) of a list of values
RECURSIVE JoinWith(_, _)
JoinWith(xs, sep) ==
    IF xs = <<>> THEN <<>>
    ELSE LET one(y) == IF y.t \in {"null", "undef"} THEN <<>> ELSE ToStringJS(y)
         IN  IF Len(xs) = 1 THEN one(xs[1])
             ELSE one(xs[1]) \o sep \o JoinWith(Tail(xs), sep)

\* the row template raises on a finding that is null or undefined, and on a
\* truthy comment that has no replace method
RowThrows(f) ==
    \/ f.t \in {"null", "undef"}
    \/ Truthy(Prop(f, KeyComment)) /\ Prop(f, KeyComment).t # "str"

Row(f) ==
    [severity |-> ToUpperCase(ToStringJS(OrElse(Prop(f, KeySeverity), JStr(<<"i", "n", "f", "o">>)))),
     file |-> ToStringJS(OrElse(Prop(f, KeyFile), JStr(<<"-">>))),
     line |-> ToStringJS(Coalesce(Prop(f, KeyLine), JStr(<<"-">>))),
     comment |-> ReplaceNewlines(OrElse(Prop(f, KeyComment), JStr(<<>>)).v)]

SuggestionItem(f) ==
    [file |-> ToStringJS(OrElse(Prop(f, KeyFile), JStr(<<>>))),
     line |-> ToStringJS(Coalesce(Prop(f, KeyLine), JStr(<<>>))),
     suggestion |-> ToStringJS(Prop(f, KeySuggestion))]

RECURSIVE SuggestionItems(_)
SuggestionItems(findings) ==
    IF findings = <<>> THEN <<>>
    ELSE (IF Truthy(Prop(Head(findings), KeySuggestion))
          THEN <<SuggestionItem(Head(findings))>> ELSE <<>>)
            \o SuggestionItems(Tail(findings))

ReviewCompleted ==
    <<"R", "e", "v", "i", "e", "w", " ", "c", "o", "m", "p", "l", "e", "t", "e", "d",
      ".">>

\* renderMarkdown({summary, findings}, title); no rows stands for the line
\* "_No actionable findings._"
renderMarkdown(finalOut, title) ==
    IF \E k \in 1..Len(finalOut.findings) : RowThrows(finalOut.findings[k]) THEN Throws
    ELSE Returns([title |-> title,
                  summary |-> ToStringJS(OrElse(finalOut.summary, JStr(ReviewCompleted))),
                  rows |-> [k \in 1..Len(finalOut.findings) |-> Row(finalOut.findings[k])],
                  suggestions |-> SuggestionItems(finalOut.findings)])

TitlePR ==
    <<"O", "p", "e", "n", "R", "o", "u", "t", "e", "r", " ", "P", "R", " ", "R", "e",
      "v", "i", "e", "w">>
TitleFullRepo ==
    <<"O", "p", "e", "n", "R", "o", "u", "t", "e", "r", " ", "F", "u", "l", "l", " ",
      "R", "e", "p", "o", " ", "R", "e", "v", "i", "e", "w">>

\* the cross mark that opens the message, by name
CrossMark == "CROSS"

NothingToReviewText ==
    <<"N", "o", " ", "t", "e", "x", "t", "u", "a", "l", " ", "d", "i", "f", "f", " ",
      "t", "o", " ", "r", "e", "v", "i", "e", "w", " ", "(", "b", "i", "n", "a", "r",
      "y", " ", "o", "r", " ", "e", "m", "p", "t", "y", " ", "c", "h", "a", "n", "g",
      "e", "s", ")", ".">>

UnauthorizedText ==
    <<CrossMark, " ">> \o
    <<"O", "p", "e", "n", "R", "o", "u", "t", "e", "r", " ", "r", "e", "t", "u", "r",
      "n", "e", "d", " ", "4", "0", "1", " ", "U", "n", "a", "u", "t", "h", "o", "r",
      "i", "z", "e", "d", ".", " ", "C", "h", "e", "c", "k", " ", "t", "h", "e", " ",
      "O", "P", "E", "N", "R", "O", "U", "T", "E", "R", "_", "A", "P", "I", "_", "K",
      "E", "Y", " ", "s", "e", "c", "r", "e", "t", ".">>

InvalidJsonBatchText ==
    <<"M", "o", "d", "e", "l", " ", "d", "i", "d", " ", "n", "o", "t", " ", "r", "e",
      "t", "u", "r", "n", " ", "v", "a", "l", "i", "d", " ", "J", "S", "O", "N", " ",
      "f", "o", "r", " ", "t", "h", "i", "s", " ", "b", "a", "t", "c", "h", ".">>
InvalidJsonText ==
    <<"M", "o", "d", "e", "l", " ", "d", "i", "d", " ", "n", "o", "t", " ", "r", "e",
      "t", "u", "r", "n", " ", "v", "a", "l", "i", "d", " ", "J", "S", "O", "N", ".">>

\* the summary of the final report: the first three batch summaries, or a count
FinalSummary(mode, nFiles, nBatches, sums) ==
    IF sums # <<>>
    THEN <<"B", "a", "t", "c", "h", "e", "s", ":", " ">> \o NatToString(nBatches) \o <<".", " ">>
            \o JoinWith(SliceTo(sums, 3), <<" ">>)
    ELSE IF mode = "pr"
    THEN <<"R", "e", "v", "i", "e", "w", "e", "d", " ">> \o NatToString(nBatches)
            \o <<" ", "b", "a", "t", "c", "h", "(", "e", "s", ")", ".">>
    ELSE <<"R", "e", "v", "i", "e", "w", "e", "d", " ">> \o NatToString(nFiles)
            \o <<" ", "f", "i", "l", "e", "(", "s", ")", " ", "a", "c", "r", "o", "s", "s", " ">>
            \o NatToString(nBatches)
            \o <<" ", "b", "a", "t", "c", "h", "(", "e", "s", ")", ".">>

\* promptForBatch(batch): the instructions are fixed text, kept as the two
\* lines that frame the input; the batched reviewer omits "(sanitized)"
PromptBegin(variant) ==
    IF variant = "secure"
    THEN
        <<"-", "-", "-", " ", "B", "E", "G", "I", "N", " ", "I", "N", "P", "U", "T",
          " ", "(", "s", "a", "n", "i", "t", "i", "z", "e", "d", ")", " ", "-", "-",
          "-", NL>>
    ELSE
        <<"-", "-", "-", " ", "B", "E", "G", "I", "N", " ", "I", "N", "P", "U", "T",
          " ", "-", "-", "-", NL>>

PromptEnd ==
    <<NL, "-", "-", "-", " ", "E", "N", "D", " ", "I", "N", "P", "U", "T", " ", "-",
      "-", "-", NL>>

promptForBatch(variant, batch) == PromptBegin(variant) \o batch \o PromptEnd

\* callOpenRouter has no retry loop; the batched reviewer's has retries = 3
Retries(variant) == IF variant = "batched" THEN 3 ELSE 1

\* the message of the error callOpenRouter throws for a response that is not
\* OK, or the message of what fetch or res.json() threw
ErrorMessage(o) ==
    IF o.kind = "http"
    THEN <<"O", "p", "e", "n", "R", "o", "u", "t", "e", "r", " ", "A", "P", "I", " ">>
            \o NatToString(o.status) \o <<":", " ">> \o o.body
    ELSE o.message

\* String(e.message || e)
CaughtMessage(m) == IF m # <<>> THEN m ELSE <<"E", "r", "r", "o", "r">>

\* a variant in which no failure is fatal
IsUnauthorizedNever(o) == FALSE

\* msg.includes("401") on the message caught for the failed call
IsUnauthorized(o) == Includes(CaughtMessage(ErrorMessage(o)), <<"4", "0", "1">>)

\* j?.choices?.[0]?.message?.content ?? ""
ContentOf(o) == Coalesce(o.content, JStr(<<>>))

\* parsed && typeof parsed === "object" ? parsed : { findings: [], summary: text }
OutOf(parsed, text) ==
    IF Truthy(parsed) /\ parsed.t \in {"obj", "arr"} THEN parsed
    ELSE JObj((<<"f", "i", "n", "d", "i", "n", "g", "s">> :> JArr(<<>>))
                @@ (<<"s", "u", "m", "m", "a", "r", "y">> :> JStr(text)))

\* Array.isArray(out.findings) ? out.findings : []
FindingsOf(out) ==
    LET fs == Prop(out, <<"f", "i", "n", "d", "i", "n", "g", "s">>)
    IN  IF fs.t = "arr" THEN fs.v ELSE <<>>

SummaryOf(out) == Prop(out, <<"s", "u", "m", "m", "a", "r", "y">>)

\* new Map(files.filter(f => f.patch).map(f => [f.filename, f.patch])).get(name)
PatchFor(files, name) ==
    LET hits == {k \in 1..Len(files) :
                    Truthy(files[k].patch) /\ name.t = "str" /\ files[k].filename = name.v}
    IN  IF hits = {} THEN JUndef
        ELSE files[CHOOSE k \in hits : \A j \in hits : j <= k].patch

\* the number of inline comments a run posts at most
MAX_INLINE == 20

\* mutant: the severity of the finding is not looked at
InlinePositionAnySeverity(files, f) ==
    IF ~Truthy(f) \/ ~Truthy(Prop(f, KeyFile)) THEN JNull
    ELSE IF ~Truthy(PatchFor(files, Prop(f, KeyFile))) THEN JNull
    ELSE LET pos == diffPositionForLine(PatchFor(files, Prop(f, KeyFile)).v,
                                        Coalesce(Prop(f, KeyLine), JNum(0)))
         IN  IF Truthy(pos) THEN pos ELSE JNull

\* the position of the inline comment for a merged finding, JNull when the
\* loop passes over it
InlinePosition(files, f) ==
    IF ~Truthy(f) \/ ~Truthy(Prop(f, KeyFile)) THEN JNull
    ELSE IF Prop(f, KeySeverity) \notin {JStr(<<"h", "i", "g", "h">>), JStr(<<"m", "e", "d", "i", "u", "m">>)}
    THEN JNull
    ELSE IF ~Truthy(PatchFor(files, Prop(f, KeyFile))) THEN JNull
    ELSE LET pos == diffPositionForLine(PatchFor(files, Prop(f, KeyFile)).v,
                                        Coalesce(Prop(f, KeyLine), JNum(0)))
         IN  IF Truthy(pos) THEN pos ELSE JNull

\* the body of the inline comment
InlineBody(f) ==
    [severity |-> ToUpperCase(ToStringJS(OrElse(Prop(f, KeySeverity), JStr(<<"i", "n", "f", "o">>)))),
     comment |-> ToStringJS(OrElse(Prop(f, KeyComment), JStr(<<"I", "s", "s", "u", "e">>))),
     suggestion |-> IF Truthy(Prop(f, KeySuggestion))
                    THEN ToStringJS(Prop(f, KeySuggestion)) ELSE <<>>]

\* each batch through redact, as batches.map(b => redact(b)) does
RedactAll(bs) == [k \in 1..Len(bs) |-> redact(bs[k])]

\* all the static findings of the files that carry a patch, in file order
RECURSIVE StaticFindingsOf(_)
StaticFindingsOf(files) ==
    IF files = <<>> THEN <<>>
    ELSE (IF Truthy(Head(files).patch)
          THEN runStaticChecksOnPatch(Head(files).filename, Head(files).patch.v)
          ELSE <<>>) \o StaticFindingsOf(Tail(files))

-----------------------------------------------------------------------------
(* Inputs of the chunker check *)

MaxFiles == 4
MaxCap == 62
MaxFileChars == 3

SeqsUpTo(S, n) == UNION {[1..k -> S] : k \in 0..n}

PatchShort == <<"+", "x">>
PatchLong ==
    <<"@", "@", " ", "-", "1", " ", "+", "1", " ", "@", "@", NL>> \o PatchShort
        \o <<NL, "-", "o", "l", "d", NL, " ", "c", "t", "x", NL, "+", "n", "e", "w", "e", "r">>

SamplePRFiles ==
    { [filename |-> <<"a">>, patch |-> JUndef],
      [filename |-> <<"b">>, patch |-> JStr(<<>>)],
      [filename |-> <<"c">>, patch |-> JStr(PatchShort)],
      [filename |-> <<"d">>, patch |-> JStr(PatchLong)] }

SampleRepoFiles ==
    { [path |-> Cwd \o <<"/", "a">>, src |-> JUndef],
      [path |-> Cwd \o <<"/", "b">>, src |-> JStr(<<" ", NL>>)],
      [path |-> Cwd \o <<"/", "c">>, src |-> JStr(<<"x", "y">>)],
      [path |-> Cwd \o <<"/", "d">>, src |-> JStr(<<"x", "y", "z", NL, "u", "v">>)] }

InitChunk ==
    /\ pc = "call"
    /\ ret = <<>>
    /\ RunIdle
    /\ args \in [kind : {"pr"}, files : SeqsUpTo(SamplePRFiles, MaxFiles),
                 cap : 0..MaxCap, maxFile : {0}]
            \cup [kind : {"repo"}, files : SeqsUpTo(SampleRepoFiles, MaxFiles),
                  cap : 0..MaxCap, maxFile : (MaxFileChars - 1)..MaxFileChars]

CallBatchPRFiles ==
    /\ pc = "call"
    /\ args.kind = "pr"
    /\ ret' = batchPRFiles(args.files, args.cap)
    /\ pc' = "return"
    /\ UNCHANGED <<args, runVars>>

CallBatchesFromFiles ==
    /\ pc = "call"
    /\ args.kind = "repo"
    /\ ret' = batchesFromFiles(args.files, args.cap, args.maxFile)
    /\ pc' = "return"
    /\ UNCHANGED <<args, runVars>>

NextChunk == CallBatchPRFiles \/ CallBatchesFromFiles

SpecChunk == InitChunk /\ [][NextChunk]_vars

-----------------------------------------------------------------------------
(* The formatted units of an input, in input order, as the claims name them *)

RECURSIVE PRUnits(_)
PRUnits(files) ==
    IF files = <<>> THEN <<>>
    ELSE (IF Truthy(Head(files).patch)
          THEN <<makeUnifiedChunk(Head(files).filename, Head(files).patch.v)>>
          ELSE <<>>) \o PRUnits(Tail(files))

RECURSIVE RepoUnits(_, _)
RepoUnits(files, maxFile) ==
    IF files = <<>> THEN <<>>
    ELSE (IF Truthy(sliceFileContent(Head(files), maxFile))
          THEN <<sliceFileContent(Head(files), maxFile).v>>
          ELSE <<>>) \o RepoUnits(Tail(files), maxFile)

UnitsOf(a) == IF a.kind = "pr" THEN PRUnits(a.files) ELSE RepoUnits(a.files, a.maxFile)

RECURSIVE SumLen(_)
SumLen(ss) == IF ss = <<>> THEN 0 ELSE Len(Head(ss)) + SumLen(Tail(ss))

\* batches is units cut into consecutive non-empty groups, each group concatenated
RECURSIVE OrderedPartition(_, _)
OrderedPartition(units, batches) ==
    IF batches = <<>> THEN units = <<>>
    ELSE \E k \in 1..Len(units) :
            /\ Concat(SubSeq(units, 1, k)) = Head(batches)
            /\ OrderedPartition(SubSeq(units, k + 1, Len(units)), Tail(batches))

\* C1: every batch the chunker returns is at most cap long, unless it is exactly
\* one formatted unit that is itself longer than the cap.
C1_BatchWithinCap ==
    pc = "return" =>
        \A j \in 1..Len(ret) :
            \/ Len(ret[j]) <= args.cap
            \/ \E u \in 1..Len(UnitsOf(args)) :
                  ret[j] = UnitsOf(args)[u] /\ Len(UnitsOf(args)[u]) > args.cap

C1_Witness ==
    /\ pc = "return"
    /\ \E j \in 1..Len(ret) : Len(ret[j]) > args.cap
    /\ \E j \in 1..Len(ret) :
          Len(ret[j]) <= args.cap /\ \A u \in 1..Len(UnitsOf(args)) : ret[j] # UnitsOf(args)[u]

\* C2: the batches are an ordered partition of the usable units: each batch is one
\* or more whole consecutive units, the batches concatenated are the units
\* concatenated, the lengths add up, and a unit without patch/body adds nothing.
C2_OrderedPartition ==
    pc = "return" =>
        /\ OrderedPartition(UnitsOf(args), ret)
        /\ Concat(ret) = Concat(UnitsOf(args))
        /\ SumLen(ret) = SumLen(UnitsOf(args))

C2_Witness ==
    /\ pc = "return"
    /\ args.kind = "pr"
    /\ Len(ret) >= 2
    /\ Len(UnitsOf(args)) > Len(ret)
    /\ Len(args.files) > Len(UnitsOf(args))

\* C21: for the same files, batchPRFiles with a larger cap gives no more
\* batches than with a smaller cap, units larger than a cap included.
C21_BatchCountMonotone ==
    (pc = "return" /\ args.kind = "pr") =>
        \A c2 \in (args.cap + 1)..(MaxCap + 1) :
            Len(batchPRFiles(args.files, c2)) <= Len(ret)

\* a cap smaller than a unit and larger than another gave more batches than
\* the largest cap gives
C21_Witness ==
    /\ pc = "return"
    /\ args.kind = "pr"
    /\ \E k \in 1..Len(UnitsOf(args)) : Len(UnitsOf(args)[k]) > args.cap
    /\ \E k \in 1..Len(UnitsOf(args)) : 2 * Len(UnitsOf(args)[k]) <= args.cap
    /\ Len(ret) > Len(batchPRFiles(args.files, MaxCap))
    /\ Len(batchPRFiles(args.files, MaxCap)) >= 2

-----------------------------------------------------------------------------
(* Inputs of the diff mapper check: patches joined from whole diff lines *)

MaxDiffLines == 4
MaxTarget == 5

RECURSIVE Join(_)
Join(lines) ==
    IF lines = <<>> THEN <<>>
    ELSE IF Len(lines) = 1 THEN Head(lines)
    ELSE Head(lines) \o <<NL>> \o Join(Tail(lines))

NoNewlineMarker ==
    <<"\\", " ", "N", "o", " ", "n", "e", "w", "l", "i", "n", "e", " ", "a", "t", " ",
      "e", "n", "d", " ", "o", "f", " ", "f", "i", "l", "e">>

SampleDiffLines ==
    { <<"@", "@", " ", "-", "1", " ", "+", "1", " ", "@", "@">>,
      <<"@", "@", " ", "-", "1", ",", "2", " ", "+", "3", ",", "2", " ", "@", "@", " ", "f">>,
      <<"+", "a">>,
      <<"-", "r">>,
      <<" ", "c">>,
      NoNewlineMarker,
      <<>> }

ExampleDiff ==
    Join(<< <<"@", "@", " ", "-", "1", ",", "3", " ", "+", "1", ",", "4", " ", "@", "@">>,
            <<" ", "c", "o", "n", "t", "e", "x", "t">>,
            <<"+", "a", "d", "d", "e", "d", "1">>,
            <<"+", "a", "d", "d", "e", "d", "2">>,
            <<" ", "c", "o", "n", "t", "e", "x", "t", "2">> >>)

SampleTargets ==
    {JNum(n) : n \in 0..MaxTarget} \cup {JStr(<<"2">>), JStr(<<"x">>)}

InitDiff ==
    /\ pc = "call"
    /\ ret = <<>>
    /\ RunIdle
    /\ args \in [kind : {"pos"},
                 patch : {Join(ls) : ls \in UNION {[1..k -> SampleDiffLines] : k \in 1..MaxDiffLines}}
                            \cup {ExampleDiff},
                 target : SampleTargets]

CallDiffPositionForLine ==
    /\ pc = "call"
    /\ args.kind = "pos"
    /\ ret' = diffPositionForLine(args.patch, args.target)
    /\ pc' = "return"
    /\ UNCHANGED <<args, runVars>>

NextDiff == CallDiffPositionForLine

SpecDiff == InitDiff /\ [][NextDiff]_vars

IsHunkHeader(L) == HunkHeader(L).ok

\* what the walk takes for a context or added line: not a header, not removed
Counted(L) == ~IsHunkHeader(L) /\ ~StartsWith(L, "-")

LastHeaderBefore(lines, p) ==
    LET hs == {h \in 1..(p - 1) : IsHunkHeader(lines[h])}
    IN  IF hs = {} THEN 0 ELSE CHOOSE h \in hs : \A g \in hs : g <= h

\* the running new-file line number when the walk reaches line p: the c of the
\* last header before p (0 before any header) plus the counted lines since
RunningNewLine(lines, p) ==
    LET h0 == LastHeaderBefore(lines, p)
    IN  (IF h0 = 0 THEN 0 ELSE ParseInt(HunkHeader(lines[h0]).c))
            + Cardinality({q \in (h0 + 1)..(p - 1) : Counted(lines[q])})

Hits(lines, target) ==
    {p \in 1..Len(lines) : Counted(lines[p]) /\ StrictEqNumber(RunningNewLine(lines, p), target)}

\* C3: diffPositionForLine returns the 1-based position, counting every line of
\* the diff, of the first context or added line whose running new-file line number
\* (reset to c by each hunk header, advanced by context and added lines only)
\* equals the target; the example diff with target 2 gives 3.
C3_PositionOfFirstHit ==
    (pc = "return" /\ args.kind = "pos") =>
        LET lines == Split(args.patch)
            hits == Hits(lines, args.target)
        IN  /\ ret = IF hits = {} THEN JNull
                     ELSE JNum(CHOOSE p \in hits : \A q \in hits : p <= q)
            /\ (args.patch = ExampleDiff /\ args.target = JNum(2)) => ret = JNum(3)

C3_Witness ==
    /\ pc = "return"
    /\ args.kind = "pos"
    /\ args.patch = ExampleDiff
    /\ args.target = JNum(2)
    /\ ret = JNum(3)

\* a line that has a new-file line number: added or context
RealLine(L) == StartsWith(L, "+") \/ StartsWith(L, " ")

\* the new-file line number of the added or context line p of a hunk
NewFileLine(lines, p) ==
    LET h0 == LastHeaderBefore(lines, p)
    IN  ParseInt(HunkHeader(lines[h0]).c)
            + Cardinality({q \in (h0 + 1)..(p - 1) : RealLine(lines[q])})

\* a patch as the source host gives it: it starts with a hunk header, every other
\* line is added, removed, context or the no-newline marker, and an empty string
\* only follows a trailing newline
WellFormedPatch(lines) ==
    /\ IsHunkHeader(lines[1])
    /\ \A p \in 1..Len(lines) :
          \/ IsHunkHeader(lines[p])
          \/ RealLine(lines[p])
          \/ StartsWith(lines[p], "-")
          \/ lines[p] = NoNewlineMarker
          \/ (lines[p] = <<>> /\ p = Len(lines))

\* C4: diffPositionForLine returns not-found whenever no added or context line
\* of the diff has the target as its new-file line number.
C4_NotFoundWithoutNewLine ==
    (pc = "return" /\ args.kind = "pos" /\ WellFormedPatch(Split(args.patch))) =>
        LET lines == Split(args.patch)
        IN  (~\E p \in 1..Len(lines) :
                 /\ RealLine(lines[p])
                 /\ StrictEqNumber(NewFileLine(lines, p), args.target))
            => ret = JNull

-----------------------------------------------------------------------------
(* Inputs of the redactor check: texts joined from pieces, so that secrets,  *)
(* keywords, separators and placeholders meet in every order                 *)

MaxPieces == 2

PieceAwsKey ==
    <<"A", "K", "I", "A", "0", "1", "2", "3", "4", "5", "6", "7", "8", "9", "A", "B",
        "C", "D", "E", "F">>
PieceSk ==
    <<"s", "k", "-", "a", "b", "c", "d", "e", "f", "g", "h", "i", "j", "0", "1", "2",
        "3", "4", "5", "6", "7", "8", "9">>
PieceGitHub ==
    <<"g", "h", "p", "_", "A", "B", "C", "D", "E", "F", "G", "H", "I", "J", "0", "1",
        "2", "3", "4", "5", "6", "7", "8", "9">>
PieceGoogle ==
    <<"A", "I", "z", "a", "a", "b", "c", "d", "e", "f", "g", "h", "i", "_", "0", "1",
        "2", "3", "4", "5", "6", "7", "8", "9", "-">>
PieceToken ==
    <<"T", "o", "k", "e", "n", " ", "=", " ", "\"", "a", "b", "c", "d", "e", "f", "-",
        "1", "2", "3", "4", "5", "_", "\"">>
PieceApiKey ==
    <<"a", "p", "i", "_", "k", "e", "y", ":", "a", "b", "c", "d", "e", "f", "g", "h",
        "i", "j", "k", "l">>
PieceAwsSecret ==
    <<"A", "W", "S", "_", "S", "E", "C", "R", "E", "T", "_", "A", "C", "C", "E", "S",
        "S", "_", "K", "E", "Y", "=", "a", "b", "c", "d", "e", "f", "g", "h", "i",
        "j", "/", "1", "2", "3", "4", "5", "6", "7", "8", "9", "+", "A", "B", "C",
        "D", "E", "F", "G", "H", "I", "J">>
PiecePemBegin ==
    <<"-", "-", "-", "-", "-", "B", "E", "G", "I", "N", " ", "R", "S", "A", " ", "P",
        "R", "I", "V", "A", "T", "E", " ", "K", "E", "Y", "-", "-", "-", "-", "-">>
PiecePemEnd ==
    <<"-", "-", "-", "-", "-", "E", "N", "D", " ", "R", "S", "A", " ", "P", "R", "I",
        "V", "A", "T", "E", " ", "K", "E", "Y", "-", "-", "-", "-", "-">>
PieceRun ==
    <<"a", "b", "c", "d", "e", "f", "g", "h", "i", "j", "k", "l">>

SamplePieces ==
    { PieceAwsKey, PieceSk, PieceGitHub, PieceGoogle, PieceToken, PieceApiKey,
      PieceAwsSecret, PiecePemBegin, PiecePemEnd, PieceRun, Placeholder,
      <<"x">>, <<"_">>, <<"-">>, <<" ">>, <<"=">>, <<"'">>, <<NL>> }

SampleTexts == {Concat(ps) : ps \in SeqsUpTo(SamplePieces, MaxPieces)}

InitRedact ==
    /\ pc = "call"
    /\ ret = <<>>
    /\ RunIdle
    /\ args \in [kind : {"redact"}, text : SampleTexts]

CallRedact ==
    /\ pc = "call"
    /\ args.kind = "redact"
    /\ ret' = redact(args.text)
    /\ pc' = "return"
    /\ UNCHANGED <<args, runVars>>

NextRedact == CallRedact

SpecRedact == InitRedact /\ [][NextRedact]_vars

\* C6: redact(redact(x)) = redact(x), and after one application no pattern
\* matches anywhere in the output.
C6_RedactIdempotent ==
    (pc = "return" /\ args.kind = "redact") =>
        /\ redact(ret) = ret
        /\ \A k \in 1..7 : \A i \in 1..Len(ret) : MatchPattern(k, ret, i) = 0

C6_Witness ==
    /\ pc = "return"
    /\ args.kind = "redact"
    /\ ret # args.text
    /\ \E i \in 1..Len(ret) : LitAt(ret, i, Placeholder)
    /\ Len(ret) > Len(Placeholder)

\* the text has AKIA and 16 characters of 0-9 and A-Z at index i
AwsKeyAt(s, i) ==
    LitAt(s, i, <<"A", "K", "I", "A">>) /\ ClassRun(s, i + 4, Digits \cup Upper) >= 16

\* C20: for every text that holds AKIA followed by 16 characters of 0-9 and
\* A-Z, whatever is before and after, the output of redact holds the
\* placeholder and no such token.
C20_AwsKeyAlwaysRedacted ==
    (pc = "return" /\ args.kind = "redact"
        /\ \E i \in 1..Len(args.text) : AwsKeyAt(args.text, i)) =>
        /\ \A i \in 1..Len(ret) : ~AwsKeyAt(ret, i)
        /\ Includes(ret, Placeholder)

\* the same, of the texts in which every such token stands between word
\* boundaries
AwsKeyRedactedAtBoundaries ==
    (\A i \in 1..Len(args.text) :
        AwsKeyAt(args.text, i) => Boundary(args.text, i) /\ Boundary(args.text, i + 20)) =>
        C20_AwsKeyAlwaysRedacted

-----------------------------------------------------------------------------
(* Inputs of the response parser check: reply texts joined from pieces, and  *)
(* the values that are not text.  Both extractJsonFromText are called.       *)

MaxReplyPieces == 3

ReplyEmptyFindings ==
    <<"{", "\"", "f", "i", "n", "d", "i", "n", "g", "s", "\"", ":", "[", "]", ",",
      "\"", "s", "u", "m", "m", "a", "r", "y", "\"", ":", "\"", "o", "k", "\"", "}">>
ReplySmallObject ==
    <<"{", "\"", "a", "\"", ":", "1", "}">>
ReplySure ==
    <<"S", "u", "r", "e", "!", " ">>
ReplyFenceJson ==
    <<BackTick, BackTick, BackTick, "j", "s", "o", "n", NL>>
ReplyFencedProse ==
    <<BackTick, BackTick, BackTick, "o", "o", "p", "s", BackTick, BackTick, BackTick>>
ReplyNoJson ==
    <<"n", "o", " ", "j", "s", "o", "n", " ", "h", "e", "r", "e">>

SampleReplyPieces ==
    { ReplyEmptyFindings, ReplySmallObject, ReplySure, ReplyFenceJson, ReplyFencedProse,
      ReplyNoJson, Fence, <<"{">>, <<"}">>, <<"5">>, <<NL>> }

SampleReplies ==
    {JStr(Concat(ps)) : ps \in SeqsUpTo(SampleReplyPieces, MaxReplyPieces)}
        \cup { JUndef, JNull, JNum(0), JNum(5), JBool(TRUE), JArr(<<>>),
               JArr(<<JStr(<<"{">>), JNum(1), JStr(<<"}">>)>>),
               JObj(<<>>), JObj(<<"a">> :> JNum(1)) }

InitJson ==
    /\ pc = "call"
    /\ ret = <<>>
    /\ RunIdle
    /\ args \in [kind : {"json"}, guarded : BOOLEAN, s : SampleReplies]

CallExtractJsonFromText ==
    /\ pc = "call"
    /\ args.kind = "json"
    /\ args.guarded
    /\ ret' = extractJsonFromText(args.s)
    /\ pc' = "return"
    /\ UNCHANGED <<args, runVars>>

CallExtractJsonFromTextUnguarded ==
    /\ pc = "call"
    /\ args.kind = "json"
    /\ ~args.guarded
    /\ ret' = extractJsonFromTextUnguarded(args.s)
    /\ pc' = "return"
    /\ UNCHANGED <<args, runVars>>

NextJson == CallExtractJsonFromText \/ CallExtractJsonFromTextUnguarded

SpecJson == InitJson /\ [][NextJson]_vars

\* the three attempts of the contract on a text, in order: [ok, v] each
JsonAttempts(s) ==
    << JsonParse(s),
       IF FenceExec(s).ok THEN JsonParse(FenceExec(s).inner) ELSE [ok |-> FALSE, v |-> JUndef],
       IF IndexOf(s, "{") # 0 /\ LastIndexOf(s, "}") > IndexOf(s, "{")
       THEN JsonParse(SubSeq(s, IndexOf(s, "{"), LastIndexOf(s, "}")))
       ELSE [ok |-> FALSE, v |-> JUndef] >>

FirstSuccess(as) ==
    IF \E k \in 1..Len(as) : as[k].ok
    THEN as[CHOOSE k \in 1..Len(as) : as[k].ok /\ \A j \in 1..(k - 1) : ~as[j].ok].v
    ELSE JNull

\* C8: extractJsonFromText never raises; it returns the result of the first of
\* (1) the whole text, (2) the interior of the first fenced block, (3) the first
\* '{' to the last '}' that parses, and null when none does or when the input is
\* empty or not a string.
C8_FirstParseOrNull ==
    (pc = "return" /\ args.kind = "json") =>
        /\ ~ret.throws
        /\ ret.v = IF args.s.t # "str" \/ args.s.v = <<>> THEN JNull
                   ELSE FirstSuccess(JsonAttempts(args.s.v))

\* the same contract, of the guarded extractJsonFromText alone
GuardedFirstParseOrNull == (pc = "return" /\ args.kind = "json" /\ args.guarded) => C8_FirstParseOrNull

\* C19: extractJsonFromText returns null or an object for every input: never
\* a number, a string, a boolean or an array.
C19_ObjectOrNull ==
    (pc = "return" /\ args.kind = "json" /\ args.guarded) =>
        /\ ~ret.throws
        /\ ret.v.t \in {"null", "obj"}

\* the same, of the texts of which neither the whole nor the interior of the
\* first fenced block is JSON
ObjectOrNullFromBraces ==
    (args.s.t = "str" => ~JsonAttempts(args.s.v)[1].ok /\ ~JsonAttempts(args.s.v)[2].ok) =>
        C19_ObjectOrNull

-----------------------------------------------------------------------------
(* Inputs of the merger check: lists of findings, some sharing a key, some   *)
(* with a comment longer than the key prefix, some that are not well formed. *)

MaxFindings == 3

Finding(file, line, severity, comment) ==
    JObj((KeyFile :> file) @@ (KeyLine :> line) @@ (KeySeverity :> severity)
            @@ (KeyComment :> comment))

WithSuggestion(f, text) == JObj(f.v @@ (KeySuggestion :> JStr(text)))

FileA == JStr(<<"a", ".", "j", "s">>)
High == JStr(<<"h", "i", "g", "h">>)
Low == JStr(<<"l", "o", "w">>)
Dup == JStr(<<"d", "u", "p">>)

\* a comment that fills the key prefix, followed by a tail
LongComment(tail) == JStr([k \in 1..CommentKeyChars |-> "x"] \o tail)

FindingDup == Finding(FileA, JNum(1), High, Dup)
FindingDupSuggested == WithSuggestion(FindingDup, <<"f", "i", "x">>)
FindingLine2 == Finding(FileA, JNum(2), High, Dup)
FindingLow == Finding(FileA, JNum(1), Low, Dup)
FindingLongA == Finding(FileA, JNum(1), High, LongComment(<<"a">>))
FindingLongB == Finding(FileA, JNum(1), High, LongComment(<<"b">>))
FindingEmptyComment == Finding(FileA, JNum(1), High, JStr(<<>>))
FindingNoComment ==
    JObj((KeyFile :> FileA) @@ (KeyLine :> JNum(1)) @@ (KeySeverity :> High))
FindingLineText == Finding(FileA, JStr(<<"1">>), High, Dup)
FindingNumberComment == Finding(FileA, JNum(1), High, JNum(7))

\* two findings whose file and line differ and whose key is the same text
FindingPipeFile == Finding(JStr(<<"a", ".", "j", "s", "|", "1">>), JNum(1), High, Dup)
FindingPipeLine == Finding(FileA, JStr(<<"1", "|", "1">>), High, Dup)

SampleFindings ==
    { FindingDup, FindingDupSuggested, FindingLine2, FindingLow, FindingLongA, FindingLongB,
      FindingEmptyComment, FindingNoComment, FindingLineText, FindingNumberComment, JNull,
      FindingPipeFile, FindingPipeLine }

InitMerge ==
    /\ pc = "call"
    /\ ret = <<>>
    /\ RunIdle
    /\ args \in [kind : {"merge"}, all : SeqsUpTo(SampleFindings, MaxFindings)]

CallMergeFindings ==
    /\ pc = "call"
    /\ args.kind = "merge"
    /\ ret' = mergeFindings(args.all)
    /\ pc' = "return"
    /\ UNCHANGED <<args, runVars>>

NextMerge == CallMergeFindings

SpecMerge == InitMerge /\ [][NextMerge]_vars

\* a finding object whose comment is text or absent
TextComment(f) == f.t = "obj" /\ Prop(f, KeyComment).t \in {"str", "undef"}

\* the indexes of all whose key no earlier element has
FirstOccurrences(all) ==
    {i \in 1..Len(all) : \A j \in 1..(i - 1) : FindingKey(all[j]).v # FindingKey(all[i]).v}

\* the elements of all at the indexes in idx, from index i on, in order
RECURSIVE PickFrom(_, _, _)
PickFrom(all, idx, i) ==
    IF i > Len(all) THEN <<>>
    ELSE (IF i \in idx THEN <<all[i]>> ELSE <<>>) \o PickFrom(all, idx, i + 1)

\* C7: on findings with a text or absent comment mergeFindings returns, and
\* whenever it returns the result is the input's elements that are the first
\* of their key, unchanged and in input order, so no two results share a key
\* and a finding that differs from an earlier one only in suggestion is dropped.
C7_FirstOccurrencePerKey ==
    (pc = "return" /\ args.kind = "merge") =>
        /\ (\A i \in 1..Len(args.all) : TextComment(args.all[i])) => ~ret.throws
        /\ ~ret.throws =>
              /\ ret.v = PickFrom(args.all, FirstOccurrences(args.all), 1)
              /\ \A i, j \in 1..Len(ret.v) :
                    i # j => FindingKey(ret.v[i]).v # FindingKey(ret.v[j]).v

C7_Witness ==
    /\ pc = "return"
    /\ args.kind = "merge"
    /\ ~ret.throws
    /\ Len(ret.v) = 2
    /\ args.all = <<FindingDup, FindingLongA, FindingDupSuggested>>

-----------------------------------------------------------------------------
(* The review run: runPRReview and runFullRepo of the reviewer with          *)
(* redaction, static checks and inline comments (variant "secure"), and of   *)
(* the batched reviewer tools/openrouter-unified-review.mjs (variant         *)
(* "batched"), whose callOpenRouter retries.  Each action is one awaited     *)
(* request with what the code does up to the next one.  The source host and  *)
(* the model answer as they please.  The team guidelines file is absent.     *)
(* A run is of one of three scenarios: "failures", in which the model's      *)
(* requests succeed or fail in every way; "findings", in which every request *)
(* is answered, with findings of every shape; "many", a pull request with    *)
(* more findings than inline comments may be posted.                         *)

MaxRunFiles == 2

\* PR_MAX_BATCH_CHARS and MAX_BATCH_CHARS, and MAX_FILE_CHARS, scaled to the
\* sample files
RunCap == 90
RunFileChars == 24

PatchEval ==
    <<"@", "@", " ", "-", "1", " ", "+", "1", " ", "@", "@", NL, "+", "e", "v", "a",
      "l", "(", "x", ")">>
PatchSecret ==
    <<"@", "@", " ", "-", "1", " ", "+", "1", " ", "@", "@", NL, "+", "A", "K", "I",
      "A", "0", "1", "2", "3", "4", "5", "6", "7", "8", "9", "A", "B", "C", "D", "E",
      "F">>

RunPRFiles ==
    { [filename |-> <<"a", ".", "j", "s">>, patch |-> JStr(PatchEval)],
      [filename |-> <<"s", ".", "j", "s">>, patch |-> JStr(PatchSecret)],
      [filename |-> <<"b", ".", "p", "n", "g">>, patch |-> JUndef] }

RunRepoFiles ==
    { [path |-> Cwd \o <<"/", "a">>, src |-> JUndef],
      [path |-> Cwd \o <<"/", "c">>, src |-> JStr(<<"x", "y">>)],
      [path |-> Cwd \o <<"/", "s">>, src |-> JStr(<<"k", " ">> \o PieceAwsKey)] }

\* a file removed whose last line had no newline
PatchDeleted ==
    <<"@", "@", " ", "-", "1", " ", "+", "0", ",", "0", " ", "@", "@", NL, "-", "o",
      "l", "d", NL, "\\", " ", "N", "o", " ", "n", "e", "w", "l", "i", "n", "e", " ",
      "a", "t", " ", "e", "n", "d", " ", "o", "f", " ", "f", "i", "l", "e">>

\* a new file of MAX_INLINE + 1 lines, each with a call of eval
PatchManyEval ==
    <<"@", "@", " ", "-", "0", ",", "0", " ", "+", "1", ",", "2", "1", " ", "@", "@">>
        \o Concat([k \in 1..(MAX_INLINE + 1) |-> <<NL, "+", "e", "v", "a", "l", "(">>])

RunFindingFiles ==
    { [filename |-> <<"a", ".", "j", "s">>, patch |-> JStr(PatchEval)],
      [filename |-> <<"d", ".", "j", "s">>, patch |-> JStr(PatchDeleted)],
      [filename |-> <<"b", ".", "p", "n", "g">>, patch |-> JUndef] }

RunManyFiles ==
    { [filename |-> <<"m", ".", "j", "s">>, patch |-> JStr(PatchManyEval)] }

ReplyNullFinding ==
    <<"{", "\"", "f", "i", "n", "d", "i", "n", "g", "s", "\"", ":", "[", "n", "u", "l",
      "l", "]", ",", "\"", "s", "u", "m", "m", "a", "r", "y", "\"", ":", "\"", "s",
      "\"", "}">>
ReplyNumberComment ==
    <<"{", "\"", "f", "i", "n", "d", "i", "n", "g", "s", "\"", ":", "[", "{", "\"",
      "f", "i", "l", "e", "\"", ":", "\"", "a", ".", "j", "s", "\"", ",", "\"", "l",
      "i", "n", "e", "\"", ":", "1", ",", "\"", "s", "e", "v", "e", "r", "i", "t", "y",
      "\"", ":", "\"", "h", "i", "g", "h", "\"", ",", "\"", "c", "o", "m", "m", "e",
      "n", "t", "\"", ":", "5", "}", "]", ",", "\"", "s", "u", "m", "m", "a", "r", "y",
      "\"", ":", "\"", "s", "\"", "}">>
ReplyNoLine ==
    <<"{", "\"", "f", "i", "n", "d", "i", "n", "g", "s", "\"", ":", "[", "{", "\"",
      "f", "i", "l", "e", "\"", ":", "\"", "d", ".", "j", "s", "\"", ",", "\"", "s",
      "e", "v", "e", "r", "i", "t", "y", "\"", ":", "\"", "h", "i", "g", "h", "\"",
      ",", "\"", "c", "o", "m", "m", "e", "n", "t", "\"", ":", "\"", "c", "\"", "}",
      "]", ",", "\"", "s", "u", "m", "m", "a", "r", "y", "\"", ":", "\"", "s", "\"", "}">>
ReplyLowFinding ==
    <<"{", "\"", "f", "i", "n", "d", "i", "n", "g", "s", "\"", ":", "[", "{", "\"",
      "f", "i", "l", "e", "\"", ":", "\"", "a", ".", "j", "s", "\"", ",", "\"", "l",
      "i", "n", "e", "\"", ":", "1", ",", "\"", "s", "e", "v", "e", "r", "i", "t", "y",
      "\"", ":", "\"", "l", "o", "w", "\"", ",", "\"", "c", "o", "m", "m", "e", "n",
      "t", "\"", ":", "\"", "c", "\"", "}", "]", ",", "\"", "s", "u", "m", "m", "a",
      "r", "y", "\"", ":", "\"", "s", "\"", "}">>
ReplyLineNine ==
    <<"{", "\"", "f", "i", "n", "d", "i", "n", "g", "s", "\"", ":", "[", "{", "\"",
      "f", "i", "l", "e", "\"", ":", "\"", "a", ".", "j", "s", "\"", ",", "\"", "l",
      "i", "n", "e", "\"", ":", "9", ",", "\"", "s", "e", "v", "e", "r", "i", "t", "y",
      "\"", ":", "\"", "h", "i", "g", "h", "\"", ",", "\"", "c", "o", "m", "m", "e",
      "n", "t", "\"", ":", "\"", "c", "\"", "}", "]", ",", "\"", "s", "u", "m", "m",
      "a", "r", "y", "\"", ":", "\"", "s", "\"", "}">>
ReplyNoPatch ==
    <<"{", "\"", "f", "i", "n", "d", "i", "n", "g", "s", "\"", ":", "[", "{", "\"",
      "f", "i", "l", "e", "\"", ":", "\"", "b", ".", "p", "n", "g", "\"", ",", "\"",
      "l", "i", "n", "e", "\"", ":", "1", ",", "\"", "s", "e", "v", "e", "r", "i", "t",
      "y", "\"", ":", "\"", "h", "i", "g", "h", "\"", ",", "\"", "c", "o", "m", "m",
      "e", "n", "t", "\"", ":", "\"", "c", "\"", "}", "]", ",", "\"", "s", "u", "m",
      "m", "a", "r", "y", "\"", ":", "\"", "s", "\"", "}">>

ReplyOneFinding ==
    <<"{", "\"", "f", "i", "n", "d", "i", "n", "g", "s", "\"", ":", "[", "{", "\"",
      "f", "i", "l", "e", "\"", ":", "\"", "a", ".", "j", "s", "\"", ",", "\"", "l",
      "i", "n", "e", "\"", ":", "1", ",", "\"", "s", "e", "v", "e", "r", "i", "t", "y",
      "\"", ":", "\"", "h", "i", "g", "h", "\"", ",", "\"", "c", "o", "m", "m", "e",
      "n", "t", "\"", ":", "\"", "d", "u", "p", "\"", "}", "]", ",", "\"", "s", "u",
      "m", "m", "a", "r", "y", "\"", ":", "\"", "s", "\"", "}">>

BodyMentions401 ==
    <<"u", "p", "s", "t", "r", "e", "a", "m", " ", "e", "r", "r", "o", "r", " ", "4",
      "0", "1">>
FetchFailed == <<"f", "e", "t", "c", "h", " ", "f", "a", "i", "l", "e", "d">>
SliceTypeError ==
    <<"t", "e", "x", "t", ".", "s", "l", "i", "c", "e", " ", "i", "s", " ", "n", "o",
      "t", " ", "a", " ", "f", "u", "n", "c", "t", "i", "o", "n">>

\* how a request to the model ends: a response that is OK, with the content of
\* its first choice; a response that is not OK, with its status and body text;
\* or fetch or res.json() throwing
SampleOutcomes ==
    [kind : {"ok"},
     content : {JStr(ReplyEmptyFindings), JStr(ReplyOneFinding), JStr(ReplyNoJson), JUndef, JNum(5)}]
        \cup [kind : {"http"}, status : {401, 500}, body : {<<>>, BodyMentions401}]
        \cup [kind : {"throw"}, message : {FetchFailed, <<>>}]

\* the replies of a model that answers every request, with findings of every
\* shape
SampleFindingOutcomes ==
    [kind : {"ok"},
     content : {JStr(ReplyEmptyFindings), JStr(ReplyNullFinding), JStr(ReplyNumberComment),
                JStr(ReplyNoLine), JStr(ReplyLowFinding), JStr(ReplyLineNine),
                JStr(ReplyNoPatch)}]

SampleManyOutcomes ==
    [kind : {"ok"}, content : {JStr(ReplyEmptyFindings), JStr(ReplyLowFinding)}]

\* the outcomes the requests of a run are drawn from
OutcomesOf(scenario) ==
    CASE scenario = "failures" -> SampleOutcomes
      [] scenario = "findings" -> SampleFindingOutcomes
      [] scenario = "many" -> SampleManyOutcomes

\* the number of inline comments the source host refuses in a run, at most
MaxInlineRefusals == 1

InitRun ==
    /\ ret = <<>>
    /\ RunIdle
    /\ args \in [kind : {"run"}, scenario : {"failures"}, variant : {"secure", "batched"},
                 mode : {"pr"}, files : SeqsUpTo(RunPRFiles, MaxRunFiles)]
            \cup [kind : {"run"}, scenario : {"failures"}, variant : {"secure", "batched"},
                  mode : {"repo"}, files : SeqsUpTo(RunRepoFiles, MaxRunFiles)]
            \cup [kind : {"run"}, scenario : {"findings"}, variant : {"secure"},
                  mode : {"pr"}, files : SeqsUpTo(RunFindingFiles, MaxRunFiles)]
            \cup [kind : {"run"}, scenario : {"many"}, variant : {"secure"},
                  mode : {"pr"}, files : SeqsUpTo(RunManyFiles, 1)]
    /\ pc = IF args.mode = "repo" THEN "walk"
            ELSE IF args.variant = "secure" THEN "getPRHeadSha" ELSE "listFiles"

\* process.exit(1), also from the catch of the entry point
Exits == pc' = "exited" /\ exitCode' = 1

\* the run returns and the process ends
Ends == pc' = "done" /\ exitCode' = 0

\* a request to the source host is refused: the helper throws, nothing catches
\* it before the entry point
HostRefuses == hostFailed' = TRUE /\ Exits

\* getPRHeadSha
RunGetPRHeadSha ==
    /\ pc = "getPRHeadSha"
    /\ \E ok \in BOOLEAN :
          IF ok THEN pc' = "listFiles" /\ UNCHANGED endVars
          ELSE HostRefuses
    /\ UNCHANGED <<args, ret, pageVars, inputVars, loopVars, reportVars>>

\* githubPaginate, then the static checks and the batches
RunListFiles ==
    /\ pc = "listFiles"
    /\ \E ok \in BOOLEAN :
          IF ok
          THEN /\ staticFindings' = IF args.variant = "secure"
                                    THEN StaticFindingsOf(args.files) ELSE <<>>
               /\ reviewBatches' = IF args.variant = "secure"
                             THEN RedactAll(batchPRFiles(args.files, RunCap))
                             ELSE batchPRFiles(args.files, RunCap)
               /\ pc' = IF reviewBatches' = <<>> THEN "nothingToReview" ELSE "batch"
               /\ UNCHANGED endVars
          ELSE HostRefuses /\ UNCHANGED inputVars
    /\ UNCHANGED <<args, ret, pageVars, loopVars, reportVars>>

\* postPRComment of the note that there is no textual diff
RunPostNothingToReview ==
    /\ pc = "nothingToReview"
    /\ \E ok \in BOOLEAN :
          IF ok
          THEN /\ comments' = Append(comments, [kind |-> "text", body |-> NothingToReviewText])
               /\ Ends
               /\ UNCHANGED hostFailed
          ELSE HostRefuses /\ UNCHANGED comments
    /\ UNCHANGED <<args, ret, pageVars, inputVars, loopVars, mergedFindings, inlinePosts, ii, posted, refused, artifacts>>

\* walk and batchesFromFiles of the full repo run
RunWalk ==
    /\ pc = "walk"
    /\ IF args.files = <<>>
       THEN Ends /\ UNCHANGED <<reviewBatches, hostFailed>>
       ELSE /\ reviewBatches' = IF args.variant = "secure"
                          THEN RedactAll(batchesFromFiles(args.files, RunCap, RunFileChars))
                          ELSE batchesFromFiles(args.files, RunCap, RunFileChars)
            /\ pc' = "batch"
            /\ UNCHANGED endVars
    /\ UNCHANGED <<args, ret, pageVars, staticFindings, loopVars, reportVars>>

\* one request of callOpenRouter for the batch the loop is at, and what the
\* loop does with its result
RunCallOpenRouter ==
    /\ pc = "batch"
    /\ bi <= Len(reviewBatches)
    /\ \E o \in OutcomesOf(args.scenario) :
          LET sliceFails == o.kind = "ok" /\ args.variant = "batched" /\ ContentOf(o).t # "str"
              outcome == IF sliceFails THEN [kind |-> "throw", message |-> SliceTypeError] ELSE o
              out == OutOf(extractJsonFromText(ContentOf(o)).v,
                           IF args.mode = "pr" THEN InvalidJsonBatchText ELSE InvalidJsonText)
          IN  /\ calls' = Append(calls, [index |-> bi, attempt |-> attempt,
                                         prompt |-> promptForBatch(args.variant, reviewBatches[bi])])
              /\ lastOutcome' = outcome
              /\ IF outcome.kind = "ok"
                 THEN /\ allFindings' = allFindings \o FindingsOf(out)
                      /\ summaries' =
                            IF ~Truthy(SummaryOf(out)) THEN summaries
                            ELSE IF args.mode = "pr"
                            THEN Append(summaries, JStr(ToStringJS(SummaryOf(out))))
                            ELSE Append(summaries, SummaryOf(out))
                      /\ bi' = bi + 1
                      /\ attempt' = 1
                      /\ UNCHANGED <<pc, exitCode>>
                 ELSE IF attempt < Retries(args.variant)
                 THEN /\ attempt' = attempt + 1
                      /\ UNCHANGED <<bi, allFindings, summaries, pc, exitCode>>
                 ELSE IF IsUnauthorized(outcome)
                 THEN /\ IF args.mode = "pr" THEN pc' = "unauthorized" /\ UNCHANGED exitCode
                         ELSE Exits
                      /\ UNCHANGED <<bi, attempt, allFindings, summaries>>
                 ELSE /\ bi' = bi + 1
                      /\ attempt' = 1
                      /\ UNCHANGED <<allFindings, summaries, pc, exitCode>>
    /\ UNCHANGED <<args, ret, pageVars, inputVars, reportVars, hostFailed>>

\* postPRComment of the 401 message, then process.exit(1)
RunPostUnauthorized ==
    /\ pc = "unauthorized"
    /\ \E ok \in BOOLEAN :
          IF ok
          THEN /\ comments' = Append(comments, [kind |-> "text", body |-> UnauthorizedText])
               /\ Exits
               /\ UNCHANGED hostFailed
          ELSE HostRefuses /\ UNCHANGED comments
    /\ UNCHANGED <<args, ret, pageVars, inputVars, loopVars, mergedFindings, inlinePosts, ii, posted, refused, artifacts>>

\* mutant: the report is posted once the first batch is done
RunPostSummaryEarly ==
    /\ pc = "batch"
    /\ bi > 1
    /\ args.mode = "pr"
    /\ \E ok \in BOOLEAN :
          LET m == IF args.variant = "secure"
                   THEN mergeFindings(allFindings \o staticFindings)
                   ELSE mergeFindingsBatched(allFindings)
              body == renderMarkdown(
                          [summary |-> JStr(FinalSummary("pr", Len(args.files), Len(reviewBatches), summaries)),
                           findings |-> m.v], TitlePR)
          IN  IF m.throws \/ body.throws
              THEN Exits /\ UNCHANGED <<mergedFindings, comments, hostFailed>>
              ELSE IF ok
              THEN /\ mergedFindings' = m.v
                   /\ comments' = Append(comments, [kind |-> "report", body |-> body.v])
                   /\ IF args.variant = "secure" THEN pc' = "inline" /\ UNCHANGED exitCode
                      ELSE Ends
                   /\ UNCHANGED hostFailed
              ELSE HostRefuses /\ UNCHANGED <<mergedFindings, comments>>
    /\ UNCHANGED <<args, ret, pageVars, inputVars, loopVars, inlinePosts, ii, posted, refused, artifacts>>

\* after the last batch of a PR run: mergeFindings, renderMarkdown and
\* postPRComment of the report
RunPostSummary ==
    /\ pc = "batch"
    /\ bi > Len(reviewBatches)
    /\ args.mode = "pr"
    /\ \E ok \in BOOLEAN :
          LET m == IF args.variant = "secure"
                   THEN mergeFindings(allFindings \o staticFindings)
                   ELSE mergeFindingsBatched(allFindings)
              body == renderMarkdown(
                          [summary |-> JStr(FinalSummary("pr", Len(args.files), Len(reviewBatches), summaries)),
                           findings |-> m.v], TitlePR)
          IN  IF m.throws \/ body.throws
              THEN Exits /\ UNCHANGED <<mergedFindings, comments, hostFailed>>
              ELSE IF ok
              THEN /\ mergedFindings' = m.v
                   /\ comments' = Append(comments, [kind |-> "report", body |-> body.v])
                   /\ IF args.variant = "secure" THEN pc' = "inline" /\ UNCHANGED exitCode
                      ELSE Ends
                   /\ UNCHANGED hostFailed
              ELSE HostRefuses /\ UNCHANGED <<mergedFindings, comments>>
    /\ UNCHANGED <<args, ret, pageVars, inputVars, loopVars, inlinePosts, ii, posted, refused, artifacts>>

\* the first merged finding from j on for which the inline loop posts, 0 when
\* it passes over all of them
RECURSIVE NextInline(_)
NextInline(j) ==
    IF j > Len(mergedFindings) THEN 0
    ELSE IF InlinePosition(args.files, mergedFindings[j]) # JNull THEN j
    ELSE NextInline(j + 1)

\* postInlineComment for the next finding the loop does not pass over
RunPostInline ==
    /\ pc = "inline"
    /\ posted < MAX_INLINE
    /\ NextInline(ii) # 0
    /\ LET j == NextInline(ii)
       IN  /\ ii' = j + 1
           /\ \E ok \in BOOLEAN :
                 IF ok
                 THEN /\ inlinePosts' = Append(inlinePosts,
                            [path |-> Prop(mergedFindings[j], KeyFile).v,
                             position |-> InlinePosition(args.files, mergedFindings[j]).v,
                             body |-> InlineBody(mergedFindings[j])])
                      /\ posted' = posted + 1
                      /\ UNCHANGED <<refused, hostFailed>>
                 ELSE /\ refused < MaxInlineRefusals
                      /\ refused' = refused + 1
                      /\ hostFailed' = TRUE
                      /\ UNCHANGED <<inlinePosts, posted>>
    /\ UNCHANGED <<pc, args, ret, pageVars, inputVars, loopVars, mergedFindings, comments, artifacts, exitCode>>

\* the inline loop ends and runPRReview returns
RunFinishInline ==
    /\ pc = "inline"
    /\ posted >= MAX_INLINE \/ NextInline(ii) = 0
    /\ Ends
    /\ UNCHANGED <<args, ret, pageVars, inputVars, loopVars, reportVars, hostFailed>>

\* after the last batch of a full repo run: the JSON file, then renderMarkdown
\* and the Markdown file
RunWriteArtifacts ==
    /\ pc = "batch"
    /\ bi > Len(reviewBatches)
    /\ args.mode = "repo"
    /\ LET m == IF args.variant = "secure" THEN mergeFindings(allFindings)
                ELSE Returns(allFindings)
           finalOut == [summary |-> JStr(FinalSummary("repo", Len(args.files), Len(reviewBatches), summaries)),
                        findings |-> m.v]
           md == renderMarkdown(finalOut, TitleFullRepo)
       IN  IF m.throws THEN Exits /\ UNCHANGED <<mergedFindings, artifacts>>
           ELSE IF md.throws
           THEN /\ mergedFindings' = m.v
                /\ artifacts' = <<[kind |-> "json", body |-> finalOut]>>
                /\ Exits
           ELSE /\ mergedFindings' = m.v
                /\ artifacts' = <<[kind |-> "json", body |-> finalOut],
                                  [kind |-> "md", body |-> md.v]>>
                /\ Ends
    /\ UNCHANGED <<args, ret, pageVars, inputVars, loopVars, comments, inlinePosts, ii, posted, refused, hostFailed>>

NextRun ==
    \/ RunGetPRHeadSha
    \/ RunListFiles
    \/ RunPostNothingToReview
    \/ RunWalk
    \/ RunCallOpenRouter
    \/ RunPostUnauthorized
    \/ RunPostSummary
    \/ RunPostInline
    \/ RunFinishInline
    \/ RunWriteArtifacts

SpecRun == InitRun /\ [][NextRun]_vars

-----------------------------------------------------------------------------
(* Properties of the review run *)

\* the batches the chunker gives for the input of the run
RawBatches ==
    IF args.mode = "pr" THEN batchPRFiles(args.files, RunCap)
    ELSE batchesFromFiles(args.files, RunCap, RunFileChars)

\* C5: in every run, of either reviewer and in either mode, the batch text of
\* every prompt sent to the model is redact applied to a batch of the chunker.
C5_EverySentBatchRedacted ==
    \A k \in 1..Len(calls) :
        \E n \in 1..Len(RawBatches) :
            calls[k].prompt = promptForBatch(args.variant, redact(RawBatches[n]))

\* the same, of the reviewer that redacts alone
SecureSendsRedacted == args.variant = "secure" => C5_EverySentBatchRedacted

\* the model call failed with HTTP 401
AuthFailure(o) == o.kind = "http" /\ o.status = 401

\* the model call failed otherwise: another status, or no response at all
OtherFailure(o) == (o.kind = "http" /\ o.status # 401) \/ o.kind = "throw"

UnauthorizedComment == [kind |-> "text", body |-> UnauthorizedText]

\* C9: in the reviewer with redaction, once a model call has failed with HTTP
\* 401 no further model call is made and the run ends with exit code 1; a PR
\* run posts nothing but the 401 message, which it does post unless the source
\* host refuses it: no report, no inline comment; a full repo run writes no
\* artifact.
C9_UnauthorizedAborts ==
    /\ [](  (args.kind = "run" /\ args.variant = "secure" /\ AuthFailure(lastOutcome)) =>
              /\ pc \in {"unauthorized", "exited"}
              /\ pc = "exited" => exitCode = 1
              /\ pc = "unauthorized" => exitCode = -1 /\ comments = <<>>
              /\ inlinePosts = <<>>
              /\ artifacts = <<>>
              /\ comments \in {<<>>, <<UnauthorizedComment>>}
              /\ (pc = "exited" /\ args.mode = "pr" /\ ~hostFailed) =>
                      comments = <<UnauthorizedComment>>
              /\ args.mode = "repo" => comments = <<>> )
    /\ [][ (args.kind = "run" /\ args.variant = "secure" /\ AuthFailure(lastOutcome)) =>
              calls' = calls ]_vars

\* a PR run of two batches is aborted by a 401 on the first, the message posted
C9_Witness ==
    /\ args.kind = "run"
    /\ args.variant = "secure"
    /\ args.mode = "pr"
    /\ AuthFailure(lastOutcome)
    /\ pc = "exited"
    /\ exitCode = 1
    /\ Len(reviewBatches) = 2
    /\ Len(calls) = 1
    /\ comments = <<UnauthorizedComment>>

\* C10: in the reviewer with redaction, a model call that fails otherwise than
\* with HTTP 401, whatever its status, its body text or the network error,
\* never aborts the run: the run is not at the 401 exit and has not exited
\* inside the batch loop.
C10_OtherFailureNeverAborts ==
    (args.kind = "run" /\ args.variant = "secure" /\ OtherFailure(lastOutcome)) =>
        /\ pc # "unauthorized"
        /\ ~(pc = "exited" /\ bi <= Len(reviewBatches))

\* the same, for the failures whose message does not hold the digits 401
OtherFailureWithout401NeverAborts ==
    (OtherFailure(lastOutcome) /\ ~Includes(ErrorMessage(lastOutcome), <<"4", "0", "1">>)) =>
        C10_OtherFailureNeverAborts

\* the run is over: runPRReview or runFullRepo returned, or the process exited
RunEnded == pc \in {"done", "exited"}

SecurePR == args.kind = "run" /\ args.variant = "secure" /\ args.mode = "pr"
SecureRepo == args.kind = "run" /\ args.variant = "secure" /\ args.mode = "repo"

\* a finding of a reply that is an object whose comment, if any, is text
SoundFinding(f) ==
    /\ f.t = "obj"
    /\ Truthy(Prop(f, KeyComment)) => Prop(f, KeyComment).t = "str"

\* C11: a PR run of the reviewer with redaction in which no request to the
\* source host was refused has, when it is over, posted exactly one issue
\* comment, whatever the outcome of each model call.
C11_OneSummaryComment ==
    (SecurePR /\ RunEnded /\ ~hostFailed) => Len(comments) = 1

\* the same, of the runs whose replies hold sound findings only
OneSummaryCommentForSoundFindings ==
    (\A k \in 1..Len(allFindings) : SoundFinding(allFindings[k])) => C11_OneSummaryComment

\* the run wrote a file of the kind
HasArtifact(kind) == \E k \in 1..Len(artifacts) : artifacts[k].kind = kind

\* no request of the run was answered: every sample reply leaves a summary
NoCallAnswered == allFindings = <<>> /\ summaries = <<>>

\* C12: a full repo run of the reviewer with redaction has, when it is over,
\* written the JSON file and the Markdown file; when no model call was
\* answered the findings written are empty and the summary is the count of
\* files and batches reviewed.
C12_ArtifactsAlwaysWritten ==
    (SecureRepo /\ RunEnded) =>
        /\ HasArtifact("json")
        /\ HasArtifact("md")
        /\ NoCallAnswered =>
              \A k \in 1..Len(artifacts) :
                  artifacts[k].kind = "json" =>
                      /\ artifacts[k].body.findings = <<>>
                      /\ artifacts[k].body.summary =
                            JStr(FinalSummary("repo", Len(args.files), Len(reviewBatches), <<>>))

\* the same, of the runs that found a file and met no failure taken for a 401
ArtifactsWrittenUnlessAborted ==
    (/\ args.files # <<>>
     /\ lastOutcome.kind \in {"http", "throw"} => ~IsUnauthorized(lastOutcome)) =>
        C12_ArtifactsAlwaysWritten

\* a full repo run in which every model call failed has written both files
AllCallsFailedRun ==
    /\ SecureRepo
    /\ pc = "done"
    /\ Len(calls) >= 1
    /\ NoCallAnswered
    /\ HasArtifact("json") /\ HasArtifact("md")

\* the batch loop of the run is over and the step after it was taken
AfterBatchLoop == reviewBatches # <<>> /\ bi > Len(reviewBatches) /\ pc # "batch"

\* C13: a PR run of the reviewer with redaction whose batch loop is over, no
\* request to the source host refused, has not raised, whatever the replies
\* held: it has merged the findings and posted the report, one row for each
\* merged finding.
C13_ToleratesAnyReply ==
    (SecurePR /\ ~hostFailed /\ AfterBatchLoop) =>
        /\ pc \in {"inline", "done"}
        /\ Len(comments) = 1
        /\ comments[1].kind = "report"
        /\ Len(comments[1].body.rows) = Len(mergedFindings)

\* the same, of the runs whose replies hold sound findings only
ToleratesSoundReplies ==
    (\A k \in 1..Len(allFindings) : SoundFinding(allFindings[k])) => C13_ToleratesAnyReply

\* the value diffPositionForLine gives for the patch of the finding's file and
\* the finding's line, JNull when the file has no patch
MapperPosition(f) ==
    IF f.t # "obj" \/ ~Truthy(PatchFor(args.files, Prop(f, KeyFile))) THEN JNull
    ELSE diffPositionForLine(PatchFor(args.files, Prop(f, KeyFile)).v, Prop(f, KeyLine))

\* an inline comment posted is the one of the finding
PostedFor(p, f) ==
    /\ Prop(f, KeyFile).t = "str"
    /\ p.path = Prop(f, KeyFile).v
    /\ p.body = InlineBody(f)

\* C14: in a PR run of the reviewer with redaction every inline comment
\* posted is the one of a merged finding and has as its position the number
\* diffPositionForLine gives for the patch of the finding's file and the
\* finding's line; a merged finding whose file has no patch, or for which that
\* value is null, has no inline comment; the run that returns has exit code 0
\* and the report has the row of every merged finding.
C14_InlinePositionFromMapper ==
    (SecurePR /\ pc \in {"inline", "done"}) =>
        /\ \A k \in 1..Len(inlinePosts) :
              \E j \in 1..Len(mergedFindings) :
                  /\ PostedFor(inlinePosts[k], mergedFindings[j])
                  /\ MapperPosition(mergedFindings[j]).t = "num"
                  /\ inlinePosts[k].position = MapperPosition(mergedFindings[j]).v
        /\ \A j \in 1..Len(mergedFindings) :
              MapperPosition(mergedFindings[j]) = JNull =>
                  \A k \in 1..Len(inlinePosts) : ~PostedFor(inlinePosts[k], mergedFindings[j])
        /\ pc = "done" => exitCode = 0
        /\ \A j \in 1..Len(mergedFindings) :
              \E r \in 1..Len(comments[1].body.rows) :
                  comments[1].body.rows[r] = Row(mergedFindings[j])

\* the same, of the runs whose merged findings all have a line
InlinePositionFromMapperWithLine ==
    (\A j \in 1..Len(mergedFindings) : Prop(mergedFindings[j], KeyLine).t # "undef") =>
        C14_InlinePositionFromMapper

\* a finding on a line that is not in the patch and a finding on a file
\* without patch were passed over, the finding of the static checks was posted
InlinePassedOver ==
    /\ SecurePR
    /\ pc = "done"
    /\ exitCode = 0
    /\ Len(inlinePosts) = 1
    /\ \E j \in 1..Len(mergedFindings) :
          /\ Prop(mergedFindings[j], KeyLine) = JNum(9)
          /\ MapperPosition(mergedFindings[j]) = JNull
    /\ \E j \in 1..Len(mergedFindings) :
          /\ Prop(mergedFindings[j], KeyFile) = JStr(<<"b", ".", "p", "n", "g">>)
          /\ MapperPosition(mergedFindings[j]) = JNull

\* the finding has one of the two severities the inline loop posts for
Eligible(f) ==
    /\ f.t = "obj"
    /\ Prop(f, KeySeverity) \in {JStr(<<"h", "i", "g", "h">>), JStr(<<"m", "e", "d", "i", "u", "m">>)}

\* the position of the finding's line, 0 for none, in the patch of its file
LinePosition(f) ==
    IF f.t # "obj" \/ ~Truthy(PatchFor(args.files, Prop(f, KeyFile))) THEN JNull
    ELSE diffPositionForLine(PatchFor(args.files, Prop(f, KeyFile)).v,
                             Coalesce(Prop(f, KeyLine), JNum(0)))

\* the inline comments from k on are those of eligible merged findings from j
\* on, in the order of the merged findings
RECURSIVE InMergedOrder(_, _)
InMergedOrder(k, j) ==
    IF k > Len(inlinePosts) THEN TRUE
    ELSE IF j > Len(mergedFindings) THEN FALSE
    ELSE IF /\ Eligible(mergedFindings[j])
            /\ PostedFor(inlinePosts[k], mergedFindings[j])
            /\ JNum(inlinePosts[k].position) = LinePosition(mergedFindings[j])
    THEN InMergedOrder(k + 1, j + 1)
    ELSE InMergedOrder(k, j + 1)

\* C15: a PR run of the reviewer with redaction posts at most MAX_INLINE
\* inline comments, each for a merged finding of severity high or medium, in
\* the order of the merged findings.
C15_InlineCapSeverityOrder ==
    SecurePR =>
        /\ Len(inlinePosts) <= MAX_INLINE
        /\ posted = Len(inlinePosts)
        /\ InMergedOrder(1, 1)

\* a run with a finding of low severity and MAX_INLINE + 1 findings of high
\* severity, each with a position, has returned with MAX_INLINE inline
\* comments
C15_Witness ==
    /\ SecurePR
    /\ pc = "done"
    /\ Len(inlinePosts) = MAX_INLINE
    /\ Len(mergedFindings) = MAX_INLINE + 2
    /\ Prop(mergedFindings[1], KeySeverity) = JStr(<<"l", "o", "w">>)
    /\ \A j \in 2..Len(mergedFindings) :
          Eligible(mergedFindings[j]) /\ LinePosition(mergedFindings[j]) # JNull

-----------------------------------------------------------------------------
(* The static checks on a patch: patches joined from sample lines, so that   *)
(* added, removed and context lines with and without rule matches, hunk     *)
(* headers and the no-newline marker meet in every order                     *)

MaxScanLines == 4

ScanFile == <<"a", ".", "j", "s">>

SampleScanLines ==
    { <<"@", "@", " ", "-", "1", " ", "+", "3", " ", "@", "@">>,
      <<"@", "@", " ", "-", "7", ",", "2", " ", "+", "5", ",", "2", " ", "@", "@", " ", "f">>,
      <<"+", "e", "v", "a", "l", "(", "m", "d", "5", ")">>,
      <<"+", "f", "s", ".", "s", "t", "a", "t", "S", "y", "n", "c">>,
      <<"+", "x">>,
      <<"-", "e", "v", "a", "l", "(", "x", ")">>,
      <<" ", "e", "v", "a", "l", "(", "x", ")">>,
      NoNewlineMarker }

InitScan ==
    /\ pc = "call"
    /\ ret = <<>>
    /\ RunIdle
    /\ args \in [kind : {"scan"},
                 filename : {ScanFile},
                 patch : {Join(ls) : ls \in UNION {[1..k -> SampleScanLines] : k \in 1..MaxScanLines}}]

CallRunStaticChecksOnPatch ==
    /\ pc = "call"
    /\ args.kind = "scan"
    /\ ret' = runStaticChecksOnPatch(args.filename, args.patch)
    /\ pc' = "return"
    /\ UNCHANGED <<args, runVars>>

NextScan == CallRunStaticChecksOnPatch

SpecScan == InitScan /\ [][NextScan]_vars

\* the finding of rule k for a line of the file
ExpectedFinding(k, filename, n) ==
    JObj((KeyFile :> JStr(filename))
            @@ (KeyLine :> JNum(n))
            @@ (KeySeverity :> JStr(STATIC_RULES[k].severity))
            @@ (KeyComment :> JStr(STATIC_RULES[k].msg \o <<" ", "(", "r", "u", "l", "e", ":", " ">>
                                        \o STATIC_RULES[k].id \o <<")">>)))

\* one finding for each rule from k on that matches the added line p
RECURSIVE ExpectedOfLine(_, _, _, _)
ExpectedOfLine(filename, lines, p, k) ==
    IF k > Len(STATIC_RULES) THEN <<>>
    ELSE (IF RuleTest(k, Tail(lines[p]))
          THEN <<ExpectedFinding(k, filename, NewFileLine(lines, p))>> ELSE <<>>)
            \o ExpectedOfLine(filename, lines, p, k + 1)

\* the findings of the added lines from p on, in line order
RECURSIVE ExpectedFrom(_, _, _)
ExpectedFrom(filename, lines, p) ==
    IF p > Len(lines) THEN <<>>
    ELSE (IF ~IsHunkHeader(lines[p]) /\ StartsWith(lines[p], "+")
          THEN ExpectedOfLine(filename, lines, p, 1) ELSE <<>>)
            \o ExpectedFrom(filename, lines, p + 1)

\* C16: for a patch as the source host gives it, runStaticChecksOnPatch
\* returns one finding for each added line and each rule whose pattern
\* matches the line's text, in line order and then rule order, with the
\* rule's severity and the new-file line number of the added line, and none
\* for removed or context lines.
C16_OneFindingPerAddedLineAndRule ==
    (pc = "return" /\ args.kind = "scan" /\ WellFormedPatch(Split(args.patch))) =>
        ret = ExpectedFrom(args.filename, Split(args.patch), 1)

\* the same, of the patches without the no-newline marker
ScanWithoutMarker ==
    (\A p \in 1..Len(Split(args.patch)) : Split(args.patch)[p] # NoNewlineMarker) =>
        C16_OneFindingPerAddedLineAndRule

\* an added line that two rules match, after a removed and a context line that
\* a rule matches, gave the two findings of the added line
ScanTwoRulesOneLine ==
    /\ pc = "return"
    /\ args.kind = "scan"
    /\ Len(ret) = 2
    /\ Len(Split(args.patch)) = 4
    /\ StartsWith(Split(args.patch)[2], "-")
    /\ StartsWith(Split(args.patch)[3], " ")
    /\ Prop(ret[1], KeyLine) = JNum(4)
    /\ Prop(ret[1], KeySeverity) # Prop(ret[2], KeySeverity)

\* the index of the next hunk header after line h, one past the end for none
NextHeaderAfter(lines, h) ==
    LET hs == {g \in (h + 1)..Len(lines) : IsHunkHeader(lines[g])}
    IN  IF hs = {} THEN Len(lines) + 1 ELSE CHOOSE g \in hs : \A x \in hs : g <= x

\* every hunk begins after the new-file lines of the hunk before it
IncreasingHunks(lines) ==
    \A h \in 1..Len(lines) :
        (IsHunkHeader(lines[h]) /\ NextHeaderAfter(lines, h) <= Len(lines)) =>
            LET g == NextHeaderAfter(lines, h)
            IN  ParseInt(HunkHeader(lines[g]).c) >=
                    ParseInt(HunkHeader(lines[h]).c)
                        + Cardinality({q \in (h + 1)..(g - 1) : RealLine(lines[q])})

\* the no-newline marker follows the last line of a file: no hunk comes after it
MarkerInLastHunk(lines) ==
    \A p \in 1..Len(lines) :
        lines[p] = NoNewlineMarker => NextHeaderAfter(lines, p) > Len(lines)

\* the index p of an added line once for every rule that matches it, from rule k
RECURSIVE TriggersOfLine(_, _, _)
TriggersOfLine(lines, p, k) ==
    IF k > Len(STATIC_RULES) THEN <<>>
    ELSE (IF RuleTest(k, Tail(lines[p])) THEN <<p>> ELSE <<>>) \o TriggersOfLine(lines, p, k + 1)

\* the indices of the added lines that trigger the findings, in the order of
\* the findings
RECURSIVE TriggersFrom(_, _)
TriggersFrom(lines, p) ==
    IF p > Len(lines) THEN <<>>
    ELSE (IF ~IsHunkHeader(lines[p]) /\ StartsWith(lines[p], "+")
          THEN TriggersOfLine(lines, p, 1) ELSE <<>>)
            \o TriggersFrom(lines, p + 1)

SecretLinePR ==
    args.files = << [filename |-> <<"s", ".", "j", "s">>, patch |-> JStr(PatchSecret)] >>

\* C17: in a PR run of the reviewer with redaction on a pull request of one
\* file whose single hunk adds one line holding a secret, the model replying
\* without findings, the merged findings are exactly one finding, that of the
\* static checks for the added line.
C17_SecretLineStaticFinding ==
    (/\ SecurePR
     /\ SecretLinePR
     /\ pc \in {"inline", "done"}
     /\ lastOutcome.kind = "ok"
     /\ allFindings = <<>>) =>
        /\ Len(mergedFindings) = 1
        /\ mergedFindings = staticFindings
        /\ Prop(mergedFindings[1], KeyFile) = JStr(<<"s", ".", "j", "s">>)
        /\ Prop(mergedFindings[1], KeyLine) = JNum(1)

\* C18: a run of the reviewer with redaction for which the chunker gives no
\* batch, no request to the source host refused, ends with exit code 0
\* without any model call; a PR run has posted the note that there is nothing
\* to review and nothing else, a full repo run has written an artifact.
C18_NothingToReview ==
    (args.kind = "run" /\ args.variant = "secure" /\ RunEnded /\ ~hostFailed
        /\ RawBatches = <<>>) =>
        /\ exitCode = 0
        /\ calls = <<>>
        /\ args.mode = "pr" =>
              comments = <<[kind |-> "text", body |-> NothingToReviewText]>>
        /\ args.mode = "repo" => artifacts # <<>>

\* the same, of the PR runs and of the full repo runs that found a file
NothingToReviewWithFiles ==
    (args.mode = "pr" \/ args.files # <<>>) => C18_NothingToReview

\* a PR run on a binary file alone has posted the note and returned
NothingToReviewPosted ==
    /\ SecurePR
    /\ args.files # <<>>
    /\ pc = "done"
    /\ calls = <<>>
    /\ comments = <<[kind |-> "text", body |-> NothingToReviewText]>>

\* the report is among the issue comments
ReportPosted == \E k \in 1..Len(comments) : comments[k].kind = "report"

\* s is t with something appended
IsPrefix(s, t) == Len(s) <= Len(t) /\ SubSeq(t, 1, Len(s)) = s

\* C22: in a PR run of the reviewer with redaction the listing of the changed
\* files is over before the first model call; the model calls are made one
\* after the other in batch order, each adding its findings after those of
\* the calls before; the report is posted after the last model call; no
\* inline comment is posted, or tried, before the report.
C22_EventOrder ==
    /\ [](SecurePR =>
            /\ calls # <<>> => pc \notin {"getPRHeadSha", "listFiles"}
            /\ \A k \in 1..Len(calls) : calls[k].index = k
            /\ Len(calls) <= Len(reviewBatches)
            /\ ReportPosted => bi > Len(reviewBatches) /\ Len(calls) = Len(reviewBatches)
            /\ (inlinePosts # <<>> \/ refused > 0) => ReportPosted)
    /\ [][SecurePR =>
            /\ calls' # calls =>
                  /\ Len(calls') = Len(calls) + 1
                  /\ SubSeq(calls', 1, Len(calls)) = calls
                  /\ IsPrefix(allFindings, allFindings')
                  /\ ~ReportPosted
                  /\ inlinePosts = <<>>
            /\ ReportPosted => calls' = calls /\ allFindings' = allFindings]_vars

\* a run of two batches, both answered, has posted the report and an inline
\* comment and returned
C22_Witness ==
    /\ SecurePR
    /\ pc = "done"
    /\ Len(reviewBatches) = 2
    /\ Len(calls) = 2
    /\ calls[1].prompt # calls[2].prompt
    /\ allFindings # <<>>
    /\ ReportPosted
    /\ inlinePosts # <<>>

BatchedRun == args.kind = "run" /\ args.variant = "batched"

\* the requests of one call of callOpenRouter are numbered from 1, at most
\* Retries of them, and a call is left at its first successful response
RequestsWithinRetries ==
    BatchedRun =>
        /\ \A k \in 1..Len(calls) :
              /\ calls[k].attempt \in 1..Retries("batched")
              /\ k > 1 =>
                    \/ calls[k].index = calls[k - 1].index /\ calls[k].attempt = calls[k - 1].attempt + 1
                    \/ calls[k].index = calls[k - 1].index + 1 /\ calls[k].attempt = 1
        /\ (lastOutcome.kind = "ok" /\ pc = "batch") => attempt = 1

\* C23: callOpenRouter of the batched reviewer sends at most retries (3)
\* requests for a call and returns the text of the first successful response;
\* after a request has failed with HTTP 401 it sends no further request for
\* that call and the failure is propagated.
C23_NoRetryAfterUnauthorized ==
    /\ [](RequestsWithinRetries)
    /\ [][(BatchedRun /\ AuthFailure(lastOutcome)) => calls' = calls]_vars

\* a call of three requests
ThreeRequestsOneCall ==
    /\ BatchedRun
    /\ Len(calls) = 3
    /\ calls[3].index = 1
    /\ calls[3].attempt = 3

\* the step is a model call of the reviewer with redaction, PR mode, that
\* fails otherwise than with HTTP 401, its message without the digits 401
FailedCallStep ==
    /\ SecurePR
    /\ calls' # calls
    /\ OtherFailure(lastOutcome')
    /\ ~Includes(ErrorMessage(lastOutcome'), <<"4", "0", "1">>)

\* C24: a model call that fails with an error that is not an authentication
\* failure leaves the findings as they are, adds one batch summary, as a
\* reply that is not JSON does, and the loop goes on to the next batch.
C24_FailedBatchNoted ==
    [][FailedCallStep =>
          /\ allFindings' = allFindings
          /\ bi' = bi + 1
          /\ Len(summaries') = Len(summaries) + 1]_vars

\* the same without the summary
FailedBatchAddsNoFinding ==
    [][FailedCallStep => allFindings' = allFindings /\ bi' = bi + 1]_vars

\* a reply that is not JSON adds the placeholder summary
InvalidReplyNoted ==
    [][(SecurePR /\ calls' # calls /\ lastOutcome' = [kind |-> "ok", content |-> JStr(ReplyNoJson)]) =>
          summaries' = Append(summaries, JStr(InvalidJsonBatchText))]_vars

-----------------------------------------------------------------------------
(* githubPaginate: the loop over the pages of a listing.  The server is a    *)
(* map from URL to response, as it stands when the call begins; a response   *)
(* has its ok flag, the items of its page and the text of its Link header,   *)
(* which the loop reads, beside the entries that text was written from.      *)

\* the requests of one listing, at most
MaxRequests == 4

RelNextText == <<">", ";", " ", "r", "e", "l", "=", "\"", "n", "e", "x", "t", "\"">>

\* the index of the first ">" after index i of the text, 0 for none
FirstClose(link, i) ==
    LET closes == {j \in (i + 1)..Len(link) : link[j] = ">"}
    IN  IF closes = {} THEN 0 ELSE CHOOSE j \in closes : \A k \in closes : j <= k

\* /<([^>]+)>; rel="next"/ matches at index i
NextLinkAt(link, i) ==
    /\ link[i] = "<"
    /\ FirstClose(link, i) >= i + 2
    /\ LitAt(link, FirstClose(link, i), RelNextText)

\* mutant: the first target of the header, whatever its rel
NextLinkAnyRel(link) ==
    LET starts == {i \in 1..Len(link) : link[i] = "<" /\ FirstClose(link, i) >= i + 2}
    IN  IF starts = {} THEN JNull
        ELSE LET i == CHOOSE x \in starts : \A y \in starts : x <= y
             IN  JStr(SubSeq(link, i + 1, FirstClose(link, i) - 1))

\* m = /<([^>]+)>; rel="next"/.exec(link); next = m ? m[1] : null
NextLink(link) ==
    LET starts == {i \in 1..Len(link) : NextLinkAt(link, i)}
    IN  IF starts = {} THEN JNull
        ELSE LET i == CHOOSE x \in starts : \A y \in starts : x <= y
             IN  JStr(SubSeq(link, i + 1, FirstClose(link, i) - 1))

\* the text of a Link header with the entries [url, rel]; no entry, no header
RECURSIVE FormatLink(_)
FormatLink(entries) ==
    IF entries = <<>> THEN <<>>
    ELSE <<"<">> \o Head(entries).url \o <<">", ";", " ", "r", "e", "l", "=", "\"">>
            \o Head(entries).rel \o <<"\"">>
            \o (IF Len(entries) = 1 THEN <<>> ELSE <<",", " ">> \o FormatLink(Tail(entries)))

PageUrl(k) == <<"/", "f", "?", "p", "=">> \o NatToString(k)
PageUrls == {PageUrl(1), PageUrl(2), PageUrl(3)}

RelNext == <<"n", "e", "x", "t">>
RelPrev == <<"p", "r", "e", "v">>
RelLast == <<"l", "a", "s", "t">>

SampleLinks ==
    {<<>>}
        \cup {<<[url |-> u, rel |-> RelNext]>> : u \in PageUrls}
        \cup {<<[url |-> PageUrl(1), rel |-> RelPrev], [url |-> PageUrl(3), rel |-> RelNext]>>}
        \cup {<<[url |-> PageUrl(1), rel |-> RelPrev], [url |-> PageUrl(3), rel |-> RelLast]>>}

\* the items of the page at a URL
PageItems(u) ==
    CASE u = PageUrl(1) -> <<"a", "b">>
      [] u = PageUrl(2) -> <<>>
      [] u = PageUrl(3) -> <<"c">>

SampleServers ==
    { [u \in PageUrls |-> [ok |-> f[u].ok, page |-> PageItems(u),
                            links |-> f[u].links, link |-> FormatLink(f[u].links)]] :
        f \in [PageUrls -> [ok : BOOLEAN, links : SampleLinks]] }

InitPaginate ==
    /\ pc = "call"
    /\ ret = <<>>
    /\ RunIdle
    /\ args = [kind |-> "paginate", url |-> PageUrl(1)]

\* const out = []; let next = url
PaginateCall ==
    /\ pc = "call"
    /\ args.kind = "paginate"
    /\ pageServer' \in SampleServers
    /\ pageNext' = JStr(args.url)
    /\ pageOut' = <<>>
    /\ pc' = "fetch"
    /\ UNCHANGED <<args, ret, pageRequests, inputVars, loopVars, reportVars, endVars>>

\* one turn of the loop: the request of next and what follows it
PaginateFetch ==
    /\ pc = "fetch"
    /\ Truthy(pageNext)
    /\ Len(pageRequests) < MaxRequests
    /\ pageRequests' = Append(pageRequests, pageNext.v)
    /\ LET res == pageServer[pageNext.v]
       IN  IF ~res.ok
           THEN /\ ret' = Throws
                /\ pc' = "thrown"
                /\ UNCHANGED <<pageNext, pageOut>>
           ELSE /\ pageOut' = pageOut \o res.page
                /\ pageNext' = NextLink(res.link)
                /\ UNCHANGED <<pc, ret>>
    /\ UNCHANGED <<args, pageServer, inputVars, loopVars, reportVars, endVars>>

\* the loop is left and out returned
PaginateReturn ==
    /\ pc = "fetch"
    /\ ~Truthy(pageNext)
    /\ ret' = Returns(pageOut)
    /\ pc' = "return"
    /\ UNCHANGED <<args, runVars>>

NextPaginate == PaginateCall \/ PaginateFetch \/ PaginateReturn

SpecPaginate == InitPaginate /\ [][NextPaginate]_vars

\* the loop runs on: every await of it is answered
SpecPaginateFair == SpecPaginate /\ WF_vars(NextPaginate)

\* the URL of the entry of the header whose rel is next, <<>> for none
TrueNext(entries) ==
    LET hits == {k \in 1..Len(entries) : entries[k].rel = RelNext}
    IN  IF hits = {} THEN <<>>
        ELSE entries[CHOOSE k \in hits : \A j \in hits : k <= j].url

\* the URLs from u on along the next links, up to the first response that is
\* not OK or has no next link, n of them at most
RECURSIVE Chain(_, _, _)
Chain(server, u, n) ==
    IF n = 0 THEN <<>>
    ELSE <<u>> \o (IF server[u].ok /\ TrueNext(server[u].links) # <<>>
                   THEN Chain(server, TrueNext(server[u].links), n - 1)
                   ELSE <<>>)

\* the chain ends: it does not come back to a URL
FiniteChain(server, u) ==
    Len(Chain(server, u, Cardinality(PageUrls) + 1)) <= Cardinality(PageUrls)

RECURSIVE PagesOf(_, _)
PagesOf(server, urls) ==
    IF urls = <<>> THEN <<>> ELSE server[Head(urls)].page \o PagesOf(server, Tail(urls))

\* what holds of githubPaginate at every moment
PaginateFollowsChain ==
    (args.kind = "paginate" /\ pc # "call") =>
        LET chain == Chain(pageServer, args.url, MaxRequests)
            n == Len(pageRequests)
        IN  /\ IsPrefix(pageRequests, chain)
            /\ pc \in {"fetch", "return"} => pageOut = PagesOf(pageServer, pageRequests)
            /\ (pc = "fetch" /\ n >= 1) =>
                  (~Truthy(pageNext) <=> TrueNext(pageServer[pageRequests[n]].links) = <<>>)
            /\ pc = "return" =>
                  /\ n >= 1
                  /\ pageRequests = chain
                  /\ \A k \in 1..n : pageServer[pageRequests[k]].ok
                  /\ TrueNext(pageServer[pageRequests[n]].links) = <<>>
                  /\ ret = Returns(PagesOf(pageServer, chain))
            /\ pc = "thrown" =>
                  /\ ~pageServer[pageRequests[n]].ok
                  /\ ret = Throws

\* C25: githubPaginate requests the URL it is given and then the next link of
\* each response in turn, leaves the loop exactly at a response without next
\* link and returns the items of all pages in the order requested; a response
\* that is not OK makes it throw, nothing returned; when the chain of next
\* links ends, the call ends.
C25_PaginateToEnd ==
    /\ [](PaginateFollowsChain)
    /\ (args.kind = "paginate" /\ pc = "fetch" /\ FiniteChain(pageServer, args.url))
            ~> (pc \in {"return", "thrown"})

\* three pages were requested, the header of the second with a prev link
\* before the next link, and their items returned
C25_Witness ==
    /\ args.kind = "paginate"
    /\ pc = "return"
    /\ Len(pageRequests) = 3
    /\ Len(pageServer[pageRequests[2]].links) = 2
    /\ ret = Returns(<<"a", "b", "c">>)

-----------------------------------------------------------------------------
(* What diffPositionForLine returns, when it returns a position *)

\* C27: a position that diffPositionForLine returns is between 1 and the
\* number of lines of the patch, and the line at it is an added or context
\* line inside a hunk: no hunk header, removed line, no-newline marker, line
\* before the first hunk header or empty string after a trailing newline.
C27_PositionOnRealLine ==
    (pc = "return" /\ args.kind = "pos" /\ ret # JNull) =>
        LET lines == Split(args.patch)
        IN  /\ ret.t = "num"
            /\ ret.v \in 1..Len(lines)
            /\ RealLine(lines[ret.v])
            /\ LastHeaderBefore(lines, ret.v) # 0

\* what holds of it: the position is a line of the patch that is neither a
\* hunk header nor a removed line
PositionNeverHeaderOrRemoved ==
    (pc = "return" /\ args.kind = "pos" /\ ret # JNull) =>
        LET lines == Split(args.patch)
        IN  /\ ret.t = "num"
            /\ ret.v \in 1..Len(lines)
            /\ ~IsHunkHeader(lines[ret.v])
            /\ ~StartsWith(lines[ret.v], "-")

\* the last line of a file without trailing newline was replaced, and the
\* position returned for the new line is the one of the marker
PositionOnMarker ==
    /\ pc = "return"
    /\ args.kind = "pos"
    /\ WellFormedPatch(Split(args.patch))
    /\ Len(Split(args.patch)) = 4
    /\ StartsWith(Split(args.patch)[2], "-")
    /\ Split(args.patch)[3] = NoNewlineMarker
    /\ StartsWith(Split(args.patch)[4], "+")
    /\ args.target = JNum(1)
    /\ ret = JNum(3)

-----------------------------------------------------------------------------
(* The identity of a finding and what mergeFindings drops *)

\* the first CommentKeyChars characters of a comment that is text, the value
\* itself otherwise
CommentPrefix(c) == IF c.t = "str" THEN JStr(SliceTo(c.v, CommentKeyChars)) ELSE c

\* the identity tuple of a finding: file, line, severity and comment prefix,
\* each the value the finding carries
Identity(f) ==
    <<Prop(f, KeyFile), Prop(f, KeyLine), Prop(f, KeySeverity), CommentPrefix(Prop(f, KeyComment))>>

\* the indexes of the findings that differ in identity from all before them
FirstOfIdentity(all) ==
    {j \in 1..Len(all) : \A i \in 1..(j - 1) : Identity(all[i]) # Identity(all[j])}

\* the result keeps the findings at the indexes idx and, in order, no others
KeepsAll(all, merged, idx) ==
    \E kept \in SUBSET (1..Len(all)) : idx \subseteq kept /\ merged = PickFrom(all, kept, 1)

\* C28: mergeFindings drops a finding only when an earlier finding has the
\* same identity tuple (file, line, severity, first 100 characters of the
\* comment): findings that differ in one of the four are both kept.
C28_DropsOnlySameIdentity ==
    (pc = "return" /\ args.kind = "merge" /\ ~ret.throws) =>
        KeepsAll(args.all, ret.v, FirstOfIdentity(args.all))

HasBar(x) == x.t = "str" /\ \E k \in 1..Len(x.v) : x.v[k] = "|"

\* a finding whose file and severity are text without "|", whose line is a
\* number and whose comment is text
PlainFinding(f) ==
    /\ f.t = "obj"
    /\ Prop(f, KeyFile).t = "str" /\ ~HasBar(Prop(f, KeyFile))
    /\ Prop(f, KeyLine).t = "num"
    /\ Prop(f, KeySeverity).t = "str" /\ ~HasBar(Prop(f, KeySeverity))
    /\ Prop(f, KeyComment).t = "str"

\* the same, of findings of that form only
DropsOnlySameIdentityOfPlain ==
    (\A i \in 1..Len(args.all) : PlainFinding(args.all[i])) => C28_DropsOnlySameIdentity

\* findings of that form that differ in line, in severity and past the key
\* prefix of the comment were merged
PlainFindingsMerged ==
    /\ pc = "return"
    /\ args.kind = "merge"
    /\ args.all = <<FindingLongA, FindingLongB, FindingLow>>
    /\ ret = Returns(<<FindingLongA, FindingLow>>)

-----------------------------------------------------------------------------
(* The requests of the inline loop *)

\* the inline posting requests issued so far: those answered and those refused
InlineRequests == Len(inlinePosts) + refused

\* C29: in a PR run the number of inline-comment posting requests issued to
\* the source host never exceeds MAX_INLINE, refused requests included.
C29_InlineRequestsWithinCap ==
    SecurePR => InlineRequests <= MAX_INLINE

\* what holds: the answered requests stay within MAX_INLINE, and a refused
\* request leaves the run going, which ends with exit code 0
RefusedInlinePostTolerated ==
    SecurePR =>
        /\ Len(inlinePosts) <= MAX_INLINE
        /\ (refused > 0 /\ RunEnded) => (pc = "done" /\ exitCode = 0)

\* a request was refused and the findings after it were tried: the run ended
\* with MAX_INLINE comments posted
PostedAfterRefusal ==
    /\ SecurePR
    /\ pc = "done"
    /\ refused = 1
    /\ Len(inlinePosts) = MAX_INLINE

-----------------------------------------------------------------------------
(* The length of a redacted text *)

\* C30: redact never lengthens a text: every match of every rule is at least
\* as long as the placeholder, and the output is no longer than the input, so
\* a batch within the cap is within the cap after redaction.
C30_RedactNeverLengthens ==
    (pc = "return" /\ args.kind = "redact") =>
        /\ Len(ret) <= Len(args.text)
        /\ \A k \in 1..7 : \A i \in 1..Len(args.text) :
              MatchPattern(k, args.text, i) # 0 =>
                  MatchPattern(k, args.text, i) - i >= Len(Placeholder)

\* two secrets side by side were both replaced and the text got shorter
C30_Witness ==
    /\ pc = "return"
    /\ args.kind = "redact"
    /\ args.text = PieceToken \o PieceAwsKey
    /\ ret = Placeholder \o Placeholder
    /\ Len(ret) < Len(args.text)

\* in a run of the reviewer with redaction every batch to be sent is no longer
\* than the chunker made it, so within the cap whenever the chunker's batch is
RedactedBatchesWithinCap ==
    (args.kind = "run" /\ args.variant = "secure" /\ reviewBatches # <<>>) =>
        /\ Len(reviewBatches) = Len(RawBatches)
        /\ \A k \in 1..Len(reviewBatches) :
              /\ Len(reviewBatches[k]) <= Len(RawBatches[k])
              /\ Len(RawBatches[k]) <= RunCap => Len(reviewBatches[k]) <= RunCap

\* a batch with a secret was redacted and is shorter than the chunker made it
RedactedBatchShorter ==
    /\ args.kind = "run"
    /\ args.variant = "secure"
    /\ \E k \in 1..Len(reviewBatches) : Len(reviewBatches[k]) < Len(RawBatches[k])

====
